---- MODULE Spec2Model ----
(***************************************************************************)
(* The asynchronous ingestion core of the activity-log service:           *)
(* NATSConsumer (durable subscription, handleMessage), WorkerPool         *)
(* (jobQueue, quit, worker goroutines), ConsumerServer (the two goroutines *)
(* that call NATSConsumer.Stop when the context is cancelled) and the      *)
(* cache-aside Create the job handler calls; and                          *)
(* CachedActivityLogRepository under concurrent callers (Create, GetByID,  *)
(* GetByCompanyID, CountByCompanyID), step by step against the durable     *)
(* collection and the Redis cache.                                         *)
(***************************************************************************)
EXTENDS Integers, Sequences, FiniteSets, TLC

\* Bounds of the model.
NumMsgs == 2            \* messages published on activity.log.created
NumWorkers == 2         \* worker goroutines (consumer_server.go passes 4)
QueueCap == 1           \* capacity of jobQueue (NewWorkerPool makes 100)
NumCallers == 2         \* concurrent callers of the cached repository
MaxCalls == 3           \* calls the callers make on the repository, in all
NumVersions == 3        \* migration versions a directory may hold
MaxUps == 3             \* runs of the migrate command "up"

Msgs == 1..NumMsgs
Workers == 1..NumWorkers
Stoppers == {"consumer", "server"}
\* A job is built per delivery. The stream redelivers a message only after a
\* negative acknowledgement, so a message has at most one live job: the job is
\* named by its message, and a redelivery starts its counters afresh.
Jobs == Msgs
NoJob == 0
Callers == 1..NumCallers

VARIABLES
  proc,          \* the process: "new", "running", "panicked", "exited"
  ctxCancelled,  \* the context handed to ConsumerServer.Start is done
  decodable,     \* payload of each message: json.Unmarshal succeeds or not
                 \* (message 1 is the one that may carry a malformed payload)
  delivered,     \* stream: the message has been delivered and not nak'd since
  acked,         \* stream: messages acknowledged
  published,     \* messages the stream has received on activity.log.created
  subscription,  \* c.subscription: "none", "active", "unsubscribed"
  conn,          \* c.conn: "open", "closed"
  stopCh,        \* c.stopCh: "open", "closed"
  quit,          \* wp.quit: "open", "closed"
  jobQueue,      \* wp.jobQueue: the buffered channel
  dpc, djob,     \* the subscription's callback goroutine, in handleMessage
  wpc, wjob, werr, \* each worker goroutine: position, job, handler result
  spc,           \* each goroutine that calls NATSConsumer.Stop
  store,         \* durable store: identifiers of the records it holds
  cache,         \* ephemeral cache: the keys it holds
  handlerRuns, onSuccess, onError, \* per job: invocations
  result,        \* per job: what its handler returned, "none", "ok", "err"
  herr,          \* per job: the error its handler returned ("nil" for none)
  errSeen,       \* per job: the error its OnError was called with
  acks, naks,    \* per job: msg.Ack() and msg.Nak() calls
  lateSubmit,    \* jobs passed to Submit when quit was already closed
  rejected,      \* jobs Submit discarded
  queuedAtStop,  \* jobs that were in jobQueue when quit was closed
  collection,    \* r.collection: the documents, by _key
  redis,         \* c.client: the cache entries, by key
  cop, cpc,      \* each caller of the repository: its method and position
  carg, cloc,    \* its argument and what it read from the store
  cret,          \* what its call returned
  calls,         \* calls it has made on the repository so far
  ctrace,        \* the calls it made on Redis and on the collection during
                 \* its current or last call, with what they returned
  warm,          \* records a GetByID returned with Redis answering, whose
                 \* item entry has not expired since
  coverlap,      \* a Create: callers whose read of its tenant's pages or count ran
                 \* during it; a GetByCompanyID: records of its tenant
                 \* whose Create ran during it
  dir,           \* the migrations directory: its .aql files
  migrations,    \* the "migrations" collection: whether it exists, the versions recorded
  mpc,           \* Migrator.Up: its position
  mloc,          \* its locals: migrations, appliedSet, the loop's index
  mtrace,        \* the ExecuteAQL and RecordMigration calls of the current or last Up
  mhist          \* the Ups that returned, in order: error or nil, versions executed

migVars == <<dir, migrations, mpc, mloc, mtrace, mhist>>
streamVars == <<decodable, delivered, acked, published>>
consVars == <<subscription, conn, stopCh, dpc, djob>>
poolVars == <<quit, jobQueue, wpc, wjob, werr>>
callVars == <<cop, cpc, carg, cloc, cret, calls, coverlap, ctrace, warm>>
repoVars == <<store, cache, collection, redis, callVars>>
histVars == <<handlerRuns, onSuccess, onError, result, herr, errSeen, acks, naks, lateSubmit, rejected,
              queuedAtStop>>
appVars == <<proc, ctxCancelled, spc, streamVars, consVars, poolVars, repoVars, histVars>>
vars == <<appVars, migVars>>
ingestVars == <<proc, ctxCancelled, spc, streamVars, consVars, poolVars, store, cache, histVars,
               migVars>>

Range(s) == {s[i] : i \in 1..Len(s)}

\* A key is the text fmt.Sprintf writes, kept as its pieces with every ":"
\* a piece of its own. Text is what %s writes for a company id, %d writes
\* ToString of the number.
Text(company) ==
  IF company = "acme:eu" THEN <<"acme", ":", "eu">> ELSE <<company>>

\* Cache key builders.
BuildActivityLogCacheKey(id) == <<"activity_log", ":", ToString(id)>>
BuildActivityLogCountCacheKey(company) == <<"activity_log_count", ":">> \o Text(company)
\* A builder of list keys that leaves the limit out.
BuildCompanyActivityLogsCacheKeyNoLimit(company, page, limit) ==
  <<"company_activity_logs", ":">> \o Text(company) \o <<":", "page", ":", ToString(page)>>

BuildCompanyActivityLogsCacheKey(company, page, limit) ==
  <<"company_activity_logs", ":">> \o Text(company)
    \o <<":", "page", ":", ToString(page), ":", "limit", ":", ToString(limit)>>
\* The key matches the pattern company_activity_logs:<company>:* of
\* invalidateCompanyCache: it begins with the text before the "*".
IsCompanyListKey(key, company) ==
  LET prefix == <<"company_activity_logs", ":">> \o Text(company) \o <<":">>
  IN Len(key) >= Len(prefix) /\ SubSeq(key, 1, Len(prefix)) = prefix

\* The tenant of the record a message carries.
CompanyOf(m) == IF m % 2 = 1 THEN "acme" ELSE "acme:eu"

\* isValidEmail: the regular expression asks for a non-empty local part, an
\* "@", a non-empty domain, a "." and a top-level part of two letters or more.
\* An address is kept as the lengths of its parts.
isValidEmail(email) ==
  email.at /\ email.local >= 1 /\ email.domain >= 1 /\ email.tld >= 2

\* ActivityLog.IsValid: the required fields are non-empty and the actor's
\* email is well-formed.
IsValid(al) ==
  /\ al.ActivityName # ""
  /\ al.CompanyID # ""
  /\ al.ObjectName # ""
  /\ al.ObjectID # ""
  /\ al.FormattedMessage # ""
  /\ al.ActorID # ""
  /\ al.ActorName # ""
  /\ isValidEmail(al.ActorEmail)

\* A json.RawMessage: nil, or the bytes of a JSON text (kept as its tokens,
\* " " being insignificant white space).
RawNil == [null |-> TRUE, bytes |-> <<>>]
Raw(text) == [null |-> FALSE, bytes |-> text]

\* The record the payload of message m carries when it unmarshals. The
\* publisher's records are valid except two: message 2 names an actor whose
\* email has no "@", message 3 has an empty activity name. The changes of
\* message 1 are written with a space after the colon, those of message 3
\* are absent.
ActivityLogOf(m) ==
  [ID |-> m,
   ActivityName |-> IF m = 3 THEN "" ELSE "user.created",
   CompanyID |-> CompanyOf(m),
   ObjectName |-> "user",
   ObjectID |-> "u-1",
   FormattedMessage |-> "user created",
   ActorID |-> "actor-1",
   ActorName |-> "Ann",
   Changes |-> IF m = 1 THEN Raw(<<"{", "name", ":", " ", "Ann", "}">>)
               ELSE IF m = 3 THEN RawNil
               ELSE Raw(<<"{", "name", ":", "Ann", "}">>),
   CreatedAt |-> m,
   ActorEmail |-> IF m = 2 THEN [at |-> FALSE, local |-> 3, domain |-> 0, tld |-> 0]
                           ELSE [at |-> TRUE, local |-> 3, domain |-> 7, tld |-> 3]]

\* The files a migrations directory may hold: NNN_name.up.aql and
\* NNN_name.down.aql for each version.
Versions == 1..NumVersions
Files == [version : Versions, kind : {"up", "down"}]

\* The directory the repository ships: versions 001 and 002, each with an up
\* and a down script.
Shipped == {f \in Files : f.version \in {1, 2}}

\* No Up has run and the database has no "migrations" collection.
MigratorIdle ==
  /\ migrations = [exists |-> FALSE, versions |-> {}]
  /\ mpc = "idle"
  /\ mloc = [migrations |-> <<>>, appliedSet |-> {}, i |-> 0]
  /\ mtrace = <<>>
  /\ mhist = <<>>

InitMigrations == dir = Shipped /\ MigratorIdle

\* The consumer process before main has run, and no history.
InitIngest ==
  /\ proc = "new"
  /\ ctxCancelled = FALSE
  /\ \E poison \in BOOLEAN : decodable = [m \in Msgs |-> m # 1 \/ ~poison]
  /\ delivered = [m \in Msgs |-> FALSE]
  /\ acked = {}
  /\ subscription = "none"
  /\ conn = "open"
  /\ stopCh = "open"
  /\ quit = "open"
  /\ jobQueue = <<>>
  /\ dpc = "idle"
  /\ djob = NoJob
  /\ wpc = [w \in Workers |-> "new"]
  /\ wjob = [w \in Workers |-> NoJob]
  /\ werr = [w \in Workers |-> FALSE]
  /\ spc = [s \in Stoppers |-> "new"]
  /\ store = {}
  /\ cache = {}
  /\ handlerRuns = [j \in Jobs |-> 0]
  /\ onSuccess = [j \in Jobs |-> 0]
  /\ onError = [j \in Jobs |-> 0]
  /\ acks = [j \in Jobs |-> 0]
  /\ naks = [j \in Jobs |-> 0]
  /\ lateSubmit = {}
  /\ rejected = {}
  /\ queuedAtStop = {}
  /\ result = [j \in Jobs |-> "none"]
  /\ herr = [j \in Jobs |-> "none"]
  /\ errSeen = [j \in Jobs |-> "none"]

\* No caller has called the repository yet.
InitCalls ==
  /\ cop = [c \in Callers |-> "none"]
  /\ cpc = [c \in Callers |-> "done"]
  /\ carg = [c \in Callers |-> <<>>]
  /\ cloc = [c \in Callers |-> <<>>]
  /\ cret = [c \in Callers |-> [err |-> FALSE, val |-> <<>>]]
  /\ calls = [c \in Callers |-> 0]
  /\ coverlap = [c \in Callers |-> {}]
  /\ ctrace = [c \in Callers |-> <<>>]
  /\ warm = {}

\* The state after construction: an empty collection and an empty cache,
\* the messages already on the stream.
Init ==
  /\ InitIngest
  /\ published = Msgs
  /\ collection = <<>>
  /\ redis = <<>>
  /\ InitCalls
  /\ InitMigrations

----------------------------------------------------------------------------
\* ConsumerServer.Start up to consumer.Wait(): NATSConsumer.Start starts the
\* pool, subscribes and spawns the goroutine that waits for ctx.Done; the
\* server spawns a second one. A failed Subscribe ends main in logger.Fatal.
ServerStart ==
  /\ proc = "new"
  /\ \E subscribed \in BOOLEAN :
       IF subscribed
         THEN /\ proc' = "running"
              /\ wpc' = [w \in Workers |-> "select"]
              /\ subscription' = "active"
              /\ spc' = [s \in Stoppers |-> "wait_ctx"]
         ELSE /\ proc' = "exited"
              /\ wpc' = [w \in Workers |-> "select"]
              /\ UNCHANGED <<subscription, spc>>
  /\ UNCHANGED <<migVars, ctxCancelled, streamVars, conn, stopCh, dpc, djob, quit, jobQueue,
                 wjob, werr, repoVars, histVars>>

\* main's signal goroutine calls cancel().
Cancel ==
  /\ proc = "running"
  /\ ~ctxCancelled
  /\ ctxCancelled' = TRUE
  /\ UNCHANGED <<migVars, proc, spc, streamVars, consVars, poolVars, repoVars, histVars>>

\* The stream holds message m for delivery: it is not acknowledged, and it
\* was never delivered or its last delivery was negative-acknowledged.
Pending(m) ==
  /\ m \notin acked
  /\ delivered[m] => naks[m] > 0

\* The stream delivers message m: the subscription's goroutine invokes
\* handleMessage, which builds the job.
Deliver(m) ==
  /\ proc = "running"
  /\ subscription = "active"
  /\ conn = "open"
  /\ dpc = "idle"
  /\ m \in published
  /\ Pending(m)
  /\ delivered' = [delivered EXCEPT ![m] = TRUE]
  /\ dpc' = "handle"
  /\ djob' = m
  /\ handlerRuns' = [handlerRuns EXCEPT ![m] = 0]
  /\ onSuccess' = [onSuccess EXCEPT ![m] = 0]
  /\ onError' = [onError EXCEPT ![m] = 0]
  /\ acks' = [acks EXCEPT ![m] = 0]
  /\ naks' = [naks EXCEPT ![m] = 0]
  /\ result' = [result EXCEPT ![m] = "none"]
  /\ herr' = [herr EXCEPT ![m] = "none"]
  /\ errSeen' = [errSeen EXCEPT ![m] = "none"]
  /\ UNCHANGED <<migVars, proc, ctxCancelled, spc, decodable, acked, published, subscription, conn, stopCh,
                 poolVars, repoVars, lateSubmit, rejected, queuedAtStop>>

\* A Submit whose send case completes without the job reaching the channel.
SubmitEnqueueLost ==
  /\ proc = "running"
  /\ dpc \in {"handle", "blocked"}
  /\ Len(jobQueue) < QueueCap
  /\ dpc' = "idle"
  /\ djob' = NoJob
  /\ UNCHANGED <<migVars, proc, ctxCancelled, spc, streamVars, subscription, conn, stopCh,
                 poolVars, repoVars, histVars>>

\* A Submit that sends on a channel without a capacity.
SubmitEnqueueUnbounded ==
  /\ proc = "running"
  /\ dpc \in {"handle", "blocked"}
  /\ jobQueue' = Append(jobQueue, djob)
  /\ lateSubmit' = IF dpc = "handle" /\ quit = "closed" THEN lateSubmit \cup {djob} ELSE lateSubmit
  /\ dpc' = "idle"
  /\ djob' = NoJob
  /\ UNCHANGED <<migVars, proc, ctxCancelled, spc, streamVars, subscription, conn, stopCh,
                 quit, wpc, wjob, werr, repoVars,
                 handlerRuns, onSuccess, onError, result, herr, errSeen, acks, naks, rejected, queuedAtStop>>

\* WorkerPool.Submit, case wp.jobQueue <- job. The select may take it whenever
\* the channel has room, whether or not quit is closed.
SubmitEnqueue ==
  /\ proc = "running"
  /\ dpc \in {"handle", "blocked"}
  /\ Len(jobQueue) < QueueCap
  /\ jobQueue' = Append(jobQueue, djob)
  /\ lateSubmit' = IF dpc = "handle" /\ quit = "closed" THEN lateSubmit \cup {djob} ELSE lateSubmit
  /\ dpc' = "idle"
  /\ djob' = NoJob
  /\ UNCHANGED <<migVars, proc, ctxCancelled, spc, streamVars, subscription, conn, stopCh,
                 quit, wpc, wjob, werr, repoVars,
                 handlerRuns, onSuccess, onError, result, herr, errSeen, acks, naks, rejected, queuedAtStop>>

\* A Submit that negative-acknowledges the message of the job it discards.
SubmitRejectNaks ==
  /\ proc = "running"
  /\ dpc \in {"handle", "blocked"}
  /\ quit = "closed"
  /\ rejected' = rejected \cup {djob}
  /\ lateSubmit' = IF dpc = "handle" THEN lateSubmit \cup {djob} ELSE lateSubmit
  /\ naks' = [naks EXCEPT ![djob] = @ + 1]
  /\ dpc' = "idle"
  /\ djob' = NoJob
  /\ UNCHANGED <<migVars, proc, ctxCancelled, spc, streamVars, subscription, conn, stopCh,
                 poolVars, repoVars,
                 handlerRuns, onSuccess, onError, result, herr, errSeen, acks, queuedAtStop>>

\* WorkerPool.Submit, case <-wp.quit: the job is discarded with a warning.
SubmitReject ==
  /\ proc = "running"
  /\ dpc \in {"handle", "blocked"}
  /\ quit = "closed"
  /\ rejected' = rejected \cup {djob}
  /\ lateSubmit' = IF dpc = "handle" THEN lateSubmit \cup {djob} ELSE lateSubmit
  /\ dpc' = "idle"
  /\ djob' = NoJob
  /\ UNCHANGED <<migVars, proc, ctxCancelled, spc, streamVars, subscription, conn, stopCh,
                 poolVars, repoVars,
                 handlerRuns, onSuccess, onError, result, herr, errSeen, acks, naks, queuedAtStop>>

\* WorkerPool.Submit with neither case ready: the caller blocks in the select.
SubmitBlock ==
  /\ proc = "running"
  /\ dpc = "handle"
  /\ Len(jobQueue) >= QueueCap
  /\ quit = "open"
  /\ dpc' = "blocked"
  /\ UNCHANGED <<migVars, proc, ctxCancelled, spc, streamVars, subscription, conn, stopCh, djob,
                 poolVars, repoVars, histVars>>

----------------------------------------------------------------------------
\* A worker that keeps receiving after it has signalled wg.Done.
WorkerTakeAfterDone(w) ==
  /\ proc = "running"
  /\ wpc[w] \in {"select", "exited"}
  /\ jobQueue # <<>>
  /\ wjob' = [wjob EXCEPT ![w] = Head(jobQueue)]
  /\ jobQueue' = Tail(jobQueue)
  /\ wpc' = [wpc EXCEPT ![w] = "handler"]
  /\ UNCHANGED <<migVars, proc, ctxCancelled, spc, streamVars, consVars, quit, werr, repoVars, histVars>>

\* A worker that starts a goroutine for the job it received and selects
\* again.
WorkerTakeSpawns(w) ==
  /\ proc = "running"
  /\ wpc[w] = "select"
  /\ jobQueue # <<>>
  /\ jobQueue' = Tail(jobQueue)
  /\ UNCHANGED <<migVars, proc, ctxCancelled, spc, streamVars, consVars, quit, wpc, wjob, werr,
                 repoVars, histVars>>

\* A receive that leaves the job in the queue for the other workers.
WorkerTakeCopies(w) ==
  /\ proc = "running"
  /\ wpc[w] = "select"
  /\ jobQueue # <<>>
  /\ wjob' = [wjob EXCEPT ![w] = Head(jobQueue)]
  /\ wpc' = [wpc EXCEPT ![w] = "handler"]
  /\ UNCHANGED <<migVars, proc, ctxCancelled, spc, streamVars, consVars, quit, jobQueue, werr,
                 repoVars, histVars>>

\* WorkerPool.worker, case job := <-wp.jobQueue.
WorkerTake(w) ==
  /\ proc = "running"
  /\ wpc[w] = "select"
  /\ jobQueue # <<>>
  /\ wjob' = [wjob EXCEPT ![w] = Head(jobQueue)]
  /\ jobQueue' = Tail(jobQueue)
  /\ wpc' = [wpc EXCEPT ![w] = "handler"]
  /\ UNCHANGED <<migVars, proc, ctxCancelled, spc, streamVars, consVars, quit, werr, repoVars, histVars>>

\* WorkerPool.worker, case <-wp.quit: the worker returns (wg.Done).
WorkerQuit(w) ==
  /\ proc = "running"
  /\ wpc[w] = "select"
  /\ quit = "closed"
  /\ wpc' = [wpc EXCEPT ![w] = "exited"]
  /\ UNCHANGED <<migVars, proc, ctxCancelled, spc, streamVars, consVars, quit, jobQueue, wjob, werr,
                 repoVars, histVars>>

\* invalidateCompanyCache: the pattern delete of the tenant's list keys, then,
\* only if that succeeded, the delete of the tenant's count key.
InvalidateCompanyCache(c, company, patternOK, countOK) ==
  IF ~patternOK THEN c
  ELSE LET c1 == {k \in c : ~IsCompanyListKey(k, company)}
       IN IF countOK THEN c1 \ {BuildActivityLogCountCacheKey(company)} ELSE c1

\* CachedActivityLogRepository.Create after the durable Create succeeded: the
\* best-effort cache Set of the item and the invalidation of the tenant.
CacheAfterCreate(c, id, company, setOK, patternOK, countOK) ==
  InvalidateCompanyCache(IF setOK THEN c \cup {BuildActivityLogCacheKey(id)} ELSE c,
                         company, patternOK, countOK)

\* A durable Create that overwrites the document of an existing _key.
DurableCreateOverwrites(id, storeUp) == storeUp

\* ArangoActivityLogRepository.Create: CreateDocument fails on a transient
\* failure and when a document with the same _key exists.
DurableCreateOK(id, storeUp) == storeUp /\ id \notin store

\* processActivityLogEvent reaches arangoRepo.Create, and the durable store
\* takes the record of message m.
Created(m, storeUp) == decodable[m] /\ DurableCreateOK(m, storeUp)

\* A handler that drops the error Create returned.
ProcessErrIgnoresCreate(m, storeUp) == ~decodable[m]

\* processActivityLogEvent: whether it returns an error for message m (the
\* payload does not unmarshal, or Create returned an error).
ProcessErr(m, storeUp) == ~decodable[m] \/ ~DurableCreateOK(m, storeUp)

\* The error processActivityLogEvent returns for message m, "nil" for none.
ProcessError(m, storeUp) ==
  IF ~decodable[m] THEN "failed to unmarshal event"
  ELSE IF ~DurableCreateOK(m, storeUp) THEN "failed to save to ArangoDB"
  ELSE "nil"

\* A handler whose Create returns the error of a failed cache Set or cache
\* invalidation.
RunHandlerCacheFatal(w) ==
  /\ proc = "running"
  /\ wpc[w] = "handler"
  /\ LET m == wjob[w] IN
     \E storeUp \in BOOLEAN, setOK \in BOOLEAN, patternOK \in BOOLEAN, countOK \in BOOLEAN :
       /\ ~decodable[m] => storeUp
       /\ ~Created(m, storeUp) => (setOK /\ patternOK)
       /\ ~patternOK => countOK
       /\ werr' = [werr EXCEPT ![w] = ProcessErr(m, storeUp) \/ ~setOK \/ ~patternOK \/ ~countOK]
       /\ herr' = [herr EXCEPT ![m] =
                     IF ProcessErr(m, storeUp) THEN ProcessError(m, storeUp)
                     ELSE IF ~setOK \/ ~patternOK \/ ~countOK THEN "failed to save to ArangoDB"
                     ELSE "nil"]
       /\ result' = [result EXCEPT ![m] =
                       IF ProcessErr(m, storeUp) \/ ~setOK \/ ~patternOK \/ ~countOK
                         THEN "err" ELSE "ok"]
       /\ store' = IF Created(m, storeUp) THEN store \cup {m} ELSE store
       /\ cache' = IF Created(m, storeUp)
                     THEN CacheAfterCreate(cache, m, CompanyOf(m), setOK, patternOK, countOK)
                     ELSE cache
  /\ handlerRuns' = [handlerRuns EXCEPT ![wjob[w]] = @ + 1]
  /\ wpc' = [wpc EXCEPT ![w] = "callback"]
  /\ UNCHANGED <<migVars, proc, ctxCancelled, spc, streamVars, consVars, quit, jobQueue, wjob,
                 onSuccess, onError, errSeen, acks, naks, lateSubmit, rejected, queuedAtStop,
                 collection, redis, callVars>>

\* The worker runs job.Handler = processActivityLogEvent under its 30 s context.
RunHandler(w) ==
  /\ proc = "running"
  /\ wpc[w] = "handler"
  /\ LET m == wjob[w] IN
     \E storeUp \in BOOLEAN, setOK \in BOOLEAN, patternOK \in BOOLEAN, countOK \in BOOLEAN :
       /\ ~decodable[m] => storeUp
       /\ ~Created(m, storeUp) => (setOK /\ patternOK)
       /\ ~patternOK => countOK
       /\ werr' = [werr EXCEPT ![w] = ProcessErr(m, storeUp)]
       /\ herr' = [herr EXCEPT ![m] = ProcessError(m, storeUp)]
       /\ result' = [result EXCEPT ![m] = IF ProcessErr(m, storeUp) THEN "err" ELSE "ok"]
       /\ store' = IF Created(m, storeUp) THEN store \cup {m} ELSE store
       /\ cache' = IF Created(m, storeUp)
                     THEN CacheAfterCreate(cache, m, CompanyOf(m), setOK, patternOK, countOK)
                     ELSE cache
  /\ handlerRuns' = [handlerRuns EXCEPT ![wjob[w]] = @ + 1]
  /\ wpc' = [wpc EXCEPT ![w] = "callback"]
  /\ UNCHANGED <<migVars, proc, ctxCancelled, spc, streamVars, consVars, quit, jobQueue, wjob,
                 onSuccess, onError, errSeen, acks, naks, lateSubmit, rejected, queuedAtStop,
                 collection, redis, callVars>>

\* handleMessage's OnSuccess closure: msg.Ack(). The stream records the
\* acknowledgement while the connection is open.
OnSuccess(j) ==
  /\ onSuccess' = [onSuccess EXCEPT ![j] = @ + 1]
  /\ acks' = [acks EXCEPT ![j] = @ + 1]
  /\ acked' = IF conn = "open" THEN acked \cup {j} ELSE acked
  /\ UNCHANGED <<onError, errSeen, naks>>

\* An OnError that logs the failure and forgets msg.Nak().
OnErrorNoNak(j) ==
  /\ onError' = [onError EXCEPT ![j] = @ + 1]
  /\ errSeen' = [errSeen EXCEPT ![j] = herr[j]]
  /\ UNCHANGED <<onSuccess, acks, acked, naks>>

\* An OnError that runs its body twice.
OnErrorTwice(j) ==
  /\ onError' = [onError EXCEPT ![j] = @ + 2]
  /\ errSeen' = [errSeen EXCEPT ![j] = herr[j]]
  /\ naks' = [naks EXCEPT ![j] = @ + 2]
  /\ UNCHANGED <<onSuccess, acks, acked>>

\* handleMessage's OnError closure, called with the error the handler
\* returned to the worker: it logs the error and calls msg.Nak().
OnError(j) ==
  /\ onError' = [onError EXCEPT ![j] = @ + 1]
  /\ errSeen' = [errSeen EXCEPT ![j] = herr[j]]
  /\ naks' = [naks EXCEPT ![j] = @ + 1]
  /\ UNCHANGED <<onSuccess, acks, acked>>

\* The worker is done with its job and goes back to its select.
FinishJob(w) ==
  /\ wpc' = [wpc EXCEPT ![w] = "select"]
  /\ wjob' = [wjob EXCEPT ![w] = NoJob]
  /\ werr' = [werr EXCEPT ![w] = FALSE]
  /\ UNCHANGED <<migVars, proc, ctxCancelled, spc, decodable, delivered, published, consVars, quit, jobQueue,
                 repoVars, handlerRuns, result, herr, lateSubmit, rejected, queuedAtStop>>

\* A worker with the branches on err exchanged.
RunCallbackSwapped(w) ==
  /\ proc = "running"
  /\ wpc[w] = "callback"
  /\ IF werr[w] THEN OnSuccess(wjob[w]) ELSE OnError(wjob[w])
  /\ FinishJob(w)

\* The worker calls the job's callback: OnError when the handler returned an
\* error, OnSuccess otherwise; then it selects again.
RunCallback(w) ==
  /\ proc = "running"
  /\ wpc[w] = "callback"
  /\ IF werr[w] THEN OnError(wjob[w]) ELSE OnSuccess(wjob[w])
  /\ FinishJob(w)

----------------------------------------------------------------------------
\* A Stop that goes on to the pool without unsubscribing.
StopUnsubscribeSkipped(s) ==
  /\ proc = "running"
  /\ spc[s] = "wait_ctx"
  /\ ctxCancelled
  /\ spc' = [spc EXCEPT ![s] = "close_quit"]
  /\ UNCHANGED <<migVars, proc, ctxCancelled, streamVars, consVars, poolVars, repoVars, histVars>>

\* A goroutine waiting on ctx.Done() calls NATSConsumer.Stop, which first
\* unsubscribes.
StopUnsubscribe(s) ==
  /\ proc = "running"
  /\ spc[s] = "wait_ctx"
  /\ ctxCancelled
  /\ subscription' = "unsubscribed"
  /\ spc' = [spc EXCEPT ![s] = "close_quit"]
  /\ UNCHANGED <<migVars, proc, ctxCancelled, streamVars, conn, stopCh, dpc, djob, poolVars,
                 repoVars, histVars>>

\* WorkerPool.Stop: close(wp.quit). Closing a closed channel panics.
StopCloseQuit(s) ==
  /\ proc = "running"
  /\ spc[s] = "close_quit"
  /\ IF quit = "closed"
       THEN /\ proc' = "panicked"
            /\ UNCHANGED <<quit, spc, queuedAtStop>>
       ELSE /\ quit' = "closed"
            /\ spc' = [spc EXCEPT ![s] = "wg_wait"]
            /\ queuedAtStop' = Range(jobQueue)
            /\ UNCHANGED proc
  /\ UNCHANGED <<migVars, ctxCancelled, streamVars, consVars, jobQueue, wpc, wjob, werr, repoVars,
                 handlerRuns, onSuccess, onError, result, herr, errSeen, acks, naks, lateSubmit, rejected>>

\* A WorkerPool.Stop that returns without wg.Wait().
StopWaitWorkersNoWait(s) ==
  /\ proc = "running"
  /\ spc[s] = "wg_wait"
  /\ spc' = [spc EXCEPT ![s] = "close_stopCh"]
  /\ UNCHANGED <<migVars, proc, ctxCancelled, streamVars, consVars, poolVars, repoVars, histVars>>

\* WorkerPool.Stop: wp.wg.Wait() returns when every worker has returned.
StopWaitWorkers(s) ==
  /\ proc = "running"
  /\ spc[s] = "wg_wait"
  /\ \A w \in Workers : wpc[w] = "exited"
  /\ spc' = [spc EXCEPT ![s] = "close_stopCh"]
  /\ UNCHANGED <<migVars, proc, ctxCancelled, streamVars, consVars, poolVars, repoVars, histVars>>

\* NATSConsumer.Stop: close(c.stopCh).
StopCloseStopCh(s) ==
  /\ proc = "running"
  /\ spc[s] = "close_stopCh"
  /\ IF stopCh = "closed"
       THEN /\ proc' = "panicked"
            /\ UNCHANGED <<stopCh, spc>>
       ELSE /\ stopCh' = "closed"
            /\ spc' = [spc EXCEPT ![s] = "conn_close"]
            /\ UNCHANGED proc
  /\ UNCHANGED <<migVars, ctxCancelled, streamVars, subscription, conn, dpc, djob, poolVars,
                 repoVars, histVars>>

\* NATSConsumer.Stop: c.conn.Close(), then Stop returns.
StopCloseConn(s) ==
  /\ proc = "running"
  /\ spc[s] = "conn_close"
  /\ conn' = "closed"
  /\ spc' = [spc EXCEPT ![s] = "done"]
  /\ UNCHANGED <<migVars, proc, ctxCancelled, streamVars, subscription, stopCh, dpc, djob, poolVars,
                 repoVars, histVars>>

\* ConsumerServer.Start: consumer.Wait() returns once the consumer's own
\* goroutine has finished Stop; Start returns and main ends the process.
ServerReturn ==
  /\ proc = "running"
  /\ spc["consumer"] = "done"
  /\ proc' = "exited"
  /\ UNCHANGED <<migVars, ctxCancelled, spc, streamVars, consVars, poolVars, repoVars, histVars>>

----------------------------------------------------------------------------
Next ==
  \/ ServerStart
  \/ Cancel
  \/ \E m \in Msgs : Deliver(m)
  \/ SubmitEnqueue
  \/ SubmitReject
  \/ SubmitBlock
  \/ \E w \in Workers : WorkerTake(w)
  \/ \E w \in Workers : WorkerQuit(w)
  \/ \E w \in Workers : RunHandler(w)
  \/ \E w \in Workers : RunCallback(w)
  \/ \E s \in Stoppers : StopUnsubscribe(s)
  \/ \E s \in Stoppers : StopCloseQuit(s)
  \/ \E s \in Stoppers : StopWaitWorkers(s)
  \/ \E s \in Stoppers : StopCloseStopCh(s)
  \/ \E s \in Stoppers : StopCloseConn(s)
  \/ ServerReturn

Spec == Init /\ [][Next]_vars

----------------------------------------------------------------------------
\* The consumer while the context is never cancelled: Stop is not called, so
\* quit stays open and the cases that read quit are never ready.
NextRun ==
  \/ ServerStart
  \/ \E m \in Msgs : Deliver(m)
  \/ SubmitEnqueue
  \/ SubmitBlock
  \/ \E w \in Workers : WorkerTake(w)
  \/ \E w \in Workers : RunHandler(w)
  \/ \E w \in Workers : RunCallback(w)

\* A handler run in which the durable store accepted the write.
HandlerAccepts(w) == RunHandler(w) /\ wjob[w] \in store'

\* Goroutines are scheduled fairly; the stream delivers every message it
\* holds for delivery; the durable store does not reject writes forever.
FairRun ==
  /\ WF_vars(ServerStart)
  /\ \A m \in Msgs : SF_vars(Deliver(m))
  /\ WF_vars(SubmitEnqueue)
  /\ WF_vars(\E w \in Workers : WorkerTake(w))
  /\ \A w \in Workers : WF_vars(RunHandler(w))
  /\ \A w \in Workers : WF_vars(RunCallback(w))
  /\ \A w \in Workers : SF_vars(HandlerAccepts(w))

SpecRun == Init /\ [][NextRun]_vars /\ FairRun

----------------------------------------------------------------------------
\* handleMessage's OnSuccess closure when msg.Ack() does not reach the stream:
\* the closure drops the error Ack returns, the delivery's ack wait expires
\* and the stream holds the message for delivery again. The worker then
\* selects again.
RunCallbackAckLost(w) ==
  /\ proc = "running"
  /\ wpc[w] = "callback"
  /\ ~werr[w]
  /\ onSuccess' = [onSuccess EXCEPT ![wjob[w]] = @ + 1]
  /\ acks' = [acks EXCEPT ![wjob[w]] = @ + 1]
  /\ delivered' = [delivered EXCEPT ![wjob[w]] = FALSE]
  /\ wpc' = [wpc EXCEPT ![w] = "select"]
  /\ wjob' = [wjob EXCEPT ![w] = NoJob]
  /\ werr' = [werr EXCEPT ![w] = FALSE]
  /\ UNCHANGED <<migVars, proc, ctxCancelled, spc, decodable, acked, published, consVars, quit, jobQueue,
                 repoVars, handlerRuns, onError, result, herr, errSeen, naks, lateSubmit, rejected,
                 queuedAtStop>>

\* The running consumer on a connection that can lose acknowledgements.
NextDup ==
  \/ ServerStart
  \/ \E m \in Msgs : Deliver(m)
  \/ SubmitEnqueue
  \/ SubmitBlock
  \/ \E w \in Workers : WorkerTake(w)
  \/ \E w \in Workers : RunHandler(w)
  \/ \E w \in Workers : RunCallback(w)
  \/ \E w \in Workers : RunCallbackAckLost(w)

SpecDup == Init /\ [][NextDup]_vars

----------------------------------------------------------------------------
\* The request path and the consumer on the same subject and the same store.

\* ActivityLogUseCase.CreateActivityLog for the record message m will carry,
\* with a publisher configured: IsValid, the repository's Create, then
\* PublishActivityLogCreated of the event that holds the record, on
\* activity.log.created.
CreateActivityLogOf(m) ==
  /\ m \notin published
  /\ \E storeUp \in BOOLEAN, setOK \in BOOLEAN, patternOK \in BOOLEAN, countOK \in BOOLEAN,
        ok \in BOOLEAN :
       IF IsValid(ActivityLogOf(m)) /\ DurableCreateOK(m, storeUp)
         THEN /\ store' = store \cup {m}
              /\ cache' = CacheAfterCreate(cache, m, CompanyOf(m), setOK, patternOK, countOK)
              /\ published' = IF ok THEN published \cup {m} ELSE published
         ELSE UNCHANGED <<store, cache, published>>
  /\ UNCHANGED <<migVars, proc, ctxCancelled, spc, decodable, delivered, acked, consVars, poolVars,
                 collection, redis, callVars, histVars>>

\* Nothing has been published yet.
InitPipeline ==
  /\ InitIngest
  /\ \A m \in Msgs : decodable[m]
  /\ published = {}
  /\ collection = <<>>
  /\ redis = <<>>
  /\ InitCalls
  /\ InitMigrations

\* The use case publishing and the consumer process from start to shutdown.
\* One message of the model's records passes validation, so the queue never
\* holds a job while another is submitted and Submit never blocks.
NextPipeline ==
  \/ \E m \in Msgs : CreateActivityLogOf(m)
  \/ ServerStart
  \/ Cancel
  \/ \E m \in Msgs : Deliver(m)
  \/ SubmitEnqueue
  \/ SubmitReject
  \/ \E w \in Workers : WorkerTake(w)
  \/ \E w \in Workers : WorkerQuit(w)
  \/ \E w \in Workers : RunHandler(w)
  \/ \E w \in Workers : RunCallback(w)
  \/ \E s \in Stoppers : StopUnsubscribe(s)
  \/ \E s \in Stoppers : StopCloseQuit(s)
  \/ \E s \in Stoppers : StopWaitWorkers(s)
  \/ \E s \in Stoppers : StopCloseStopCh(s)
  \/ \E s \in Stoppers : StopCloseConn(s)
  \/ ServerReturn

SpecPipeline == InitPipeline /\ [][NextPipeline]_vars

----------------------------------------------------------------------------
\* The migrate command: Migrator.Up on a migrations directory.

\* sort.Slice by Version over the versions of the map.
RECURSIVE SortByVersion(_)
SortByVersion(S) ==
  IF S = {} THEN <<>>
  ELSE LET v == CHOOSE x \in S : \A y \in S : x <= y
       IN <<v>> \o SortByVersion(S \ {v})

\* Migrator.LoadMigrations: one Migration per version found in a file name,
\* its UpScript the content of the version's .up.aql file and empty without
\* one, sorted by version.
LoadMigrations(files) ==
  LET UpScript(v) == IF [version |-> v, kind |-> "up"] \in files THEN "aql" ELSE ""
      sorted == SortByVersion({f.version : f \in files})
  IN [k \in 1..Len(sorted) |-> [Version |-> sorted[k], UpScript |-> UpScript(sorted[k])]]

\* The versions whose script the calls of a trace passed to ExecuteAQL, in order.
Executed(trace) ==
  LET scripts == SelectSeq(trace, LAMBDA e : e.call = "ExecuteAQL")
  IN [k \in 1..Len(scripts) |-> scripts[k].version]

\* Up returns: error or nil.
UpReturn(error, trace) ==
  /\ mpc' = "done"
  /\ mtrace' = trace
  /\ mhist' = Append(mhist, [err |-> error, executed |-> Executed(trace)])

\* Up is called: CreateMigrationsCollection.
UpCreateMigrationsCollection(ok) ==
  /\ mpc \in {"idle", "done"}
  /\ Len(mhist) < MaxUps
  /\ mloc' = [migrations |-> <<>>, appliedSet |-> {}, i |-> 0]
  /\ IF ok
       THEN /\ migrations' = [migrations EXCEPT !.exists = TRUE]
            /\ mpc' = "load"
            /\ mtrace' = <<>>
            /\ UNCHANGED mhist
       ELSE /\ UpReturn(TRUE, <<>>)
            /\ UNCHANGED migrations
  /\ UNCHANGED <<dir, appVars>>

\* migrations, err := m.LoadMigrations(migrationsPath); ok is whether every
\* file could be read.
UpLoadMigrations(ok) ==
  /\ mpc = "load"
  /\ IF ok
       THEN /\ mloc' = [mloc EXCEPT !.migrations = LoadMigrations(dir)]
            /\ mpc' = "applied"
            /\ UNCHANGED <<mtrace, mhist>>
       ELSE /\ UpReturn(TRUE, mtrace)
            /\ UNCHANGED mloc
  /\ UNCHANGED <<dir, migrations, appVars>>

\* appliedVersions, err := m.GetAppliedMigrations(ctx), and appliedSet.
UpGetAppliedMigrations(ok) ==
  /\ mpc = "applied"
  /\ IF ok
       THEN /\ mloc' = [mloc EXCEPT !.appliedSet = migrations.versions, !.i = 1]
            /\ mpc' = "loop"
            /\ UNCHANGED <<mtrace, mhist>>
       ELSE /\ UpReturn(TRUE, mtrace)
            /\ UNCHANGED mloc
  /\ UNCHANGED <<dir, migrations, appVars>>

\* One iteration of the loop with every version taken as not applied.
UpExecuteAQLAll(ok) ==
  /\ mpc = "loop"
  /\ IF mloc.i > Len(mloc.migrations)
       THEN /\ UpReturn(FALSE, mtrace)
            /\ UNCHANGED mloc
       ELSE LET migration == mloc.migrations[mloc.i]
                error == migration.UpScript # "" /\ ~ok
                trace == Append(mtrace, [call |-> "ExecuteAQL", version |-> migration.Version,
                                         err |-> error])
            IN IF error
                 THEN /\ UpReturn(TRUE, trace)
                      /\ UNCHANGED mloc
                 ELSE /\ mpc' = "record"
                      /\ mtrace' = trace
                      /\ UNCHANGED <<mloc, mhist>>
  /\ UNCHANGED <<dir, migrations, appVars>>

\* One iteration of the loop up to ExecuteAQL: the end of the slice, a
\* version of appliedSet skipped, or the up script executed. ExecuteAQL
\* returns nil for a script that is blank without querying, and ok is whether
\* m.db.Query accepted the script.
UpExecuteAQL(ok) ==
  /\ mpc = "loop"
  /\ IF mloc.i > Len(mloc.migrations)
       THEN /\ UpReturn(FALSE, mtrace)
            /\ UNCHANGED mloc
       ELSE LET migration == mloc.migrations[mloc.i]
                error == migration.UpScript # "" /\ ~ok
                trace == Append(mtrace, [call |-> "ExecuteAQL", version |-> migration.Version,
                                         err |-> error])
            IN IF migration.Version \in mloc.appliedSet
                 THEN /\ mloc' = [mloc EXCEPT !.i = @ + 1]
                      /\ UNCHANGED <<mpc, mtrace, mhist>>
                 ELSE IF error
                        THEN /\ UpReturn(TRUE, trace)
                             /\ UNCHANGED mloc
                        ELSE /\ mpc' = "record"
                             /\ mtrace' = trace
                             /\ UNCHANGED <<mloc, mhist>>
  /\ UNCHANGED <<dir, migrations, appVars>>

\* m.RecordMigration(ctx, migration.Version, migration.Name): CreateDocument
\* with _key the version, which fails on a key the collection holds and when
\* the database does not answer.
UpRecordMigration(ok) ==
  /\ mpc = "record"
  /\ LET migration == mloc.migrations[mloc.i]
         error == ~ok \/ migration.Version \in migrations.versions
         trace == Append(mtrace, [call |-> "RecordMigration", version |-> migration.Version,
                                  err |-> error])
     IN IF error
          THEN /\ UpReturn(TRUE, trace)
               /\ UNCHANGED <<mloc, migrations>>
          ELSE /\ migrations' = [migrations EXCEPT !.versions = @ \cup {migration.Version}]
               /\ mloc' = [mloc EXCEPT !.i = @ + 1]
               /\ mpc' = "loop"
               /\ mtrace' = trace
               /\ UNCHANGED mhist
  /\ UNCHANGED <<dir, appVars>>

\* Any directory of up and down scripts, an empty database.
InitMigrator ==
  /\ InitIngest
  /\ \A m \in Msgs : decodable[m]
  /\ published = Msgs
  /\ collection = <<>>
  /\ redis = <<>>
  /\ InitCalls
  /\ dir \in SUBSET Files
  /\ MigratorIdle

\* The migrate command run with "up", once after the other.
NextMigrator ==
  \/ \E ok \in BOOLEAN : UpCreateMigrationsCollection(ok)
  \/ \E ok \in BOOLEAN : UpLoadMigrations(ok)
  \/ \E ok \in BOOLEAN : UpGetAppliedMigrations(ok)
  \/ \E ok \in BOOLEAN : UpExecuteAQL(ok)
  \/ \E ok \in BOOLEAN : UpRecordMigration(ok)

SpecMigrator == InitMigrator /\ [][NextMigrator]_vars

----------------------------------------------------------------------------
\* CachedActivityLogRepository under concurrent callers: the consumer's
\* workers create, the servers' request handlers read. Every method is a
\* sequence of calls on the collection and on Redis; other callers' calls
\* interleave between them. A caller's step that starts a method also makes
\* the method's first call.
Tenants == {CompanyOf(m) : m \in Msgs}
\* The (page, limit) pairs the readers ask for.
Pages == {<<1, 1>>, <<1, 2>>}

\* encoding/json on a json.RawMessage field: Marshal writes null for nil and
\* the compacted text otherwise; Unmarshal keeps the text it finds.
IsInk(t) == t # " "
MarshalRawMessage(ch) == IF ch.null THEN <<"null">> ELSE SelectSeq(ch.bytes, IsInk)
\* json.Marshal and json.Unmarshal of an ActivityLog; the document the
\* collection keeps and the value Redis keeps are this marshalled form.
JSONMarshal(al) == [al EXCEPT !.Changes = MarshalRawMessage(al.Changes)]
JSONUnmarshal(doc) == [doc EXCEPT !.Changes = Raw(doc.Changes)]

\* RedisCache.Set, and the removal of keys (Delete, DeleteByPattern, expiry).
SetKey(r, key, val) == (key :> val) @@ r
DelKeys(r, keys) == [k \in DOMAIN r \ keys |-> r[k]]

\* The collection's documents of a tenant, latest first (SORT created_at DESC).
RECURSIVE SortDesc(_)
SortDesc(ids) ==
  IF ids = {} THEN <<>>
  ELSE LET latest == CHOOSE x \in ids :
                       \A y \in ids : collection[y].CreatedAt <= collection[x].CreatedAt
       IN <<latest>> \o SortDesc(ids \ {latest})

TenantDocs(company) == {id \in DOMAIN collection : collection[id].CompanyID = company}

\* ArangoActivityLogRepository.GetByCompanyID: the page and the total.
QueryByCompanyID(company, page, limit) ==
  LET sorted == SortDesc(TenantDocs(company))
      offset == (page - 1) * limit
      last == IF offset + limit < Len(sorted) THEN offset + limit ELSE Len(sorted)
  IN [logs |-> [i \in 1..(IF last > offset THEN last - offset ELSE 0) |->
                  JSONUnmarshal(collection[sorted[offset + i]])],
      total |-> Len(sorted)]

Creating(k) == cop[k] = "Create" /\ cpc[k] # "done"
ReadingTenant(k, company) ==
  cop[k] = "GetByCompanyID" /\ cpc[k] # "done" /\ carg[k][1] = company
CountingTenant(k, company) ==
  cop[k] = "CountByCompanyID" /\ cpc[k] # "done" /\ carg[k] = company

RECURSIVE TotalCalls(_)
TotalCalls(cs) ==
  IF cs = {} THEN 0
  ELSE LET c == CHOOSE x \in cs : TRUE IN calls[c] + TotalCalls(cs \ {c})

\* What a call on Redis and a call on the collection leave in ctrace.
CacheOp(op, key, st) == [op |-> op, key |-> key, st |-> st]
CacheSet(key, val, ok) ==
  [op |-> "cache.Set", key |-> key, val |-> val, st |-> IF ok THEN "ok" ELSE "err"]
RepoOp(op, arg, err, val) == [op |-> op, arg |-> arg, res |-> [err |-> err, val |-> val]]
\* The error ReadDocument, UpdateDocument and RemoveDocument come back with.
StoreError(id, storeUp) ==
  IF storeUp /\ id \notin DOMAIN collection THEN "ErrActivityLogNotFound" ELSE "failed"
GetStatus(up, key) ==
  IF ~up THEN "err" ELSE IF key \in DOMAIN redis THEN "ok" ELSE "miss"
\* Redis answered every call the caller made on it during its call.
Answered(c) ==
  \A i \in DOMAIN ctrace[c] : "st" \in DOMAIN ctrace[c][i] => ctrace[c][i].st # "err"
DidFirst(c, e) == ctrace' = [ctrace EXCEPT ![c] = <<e>>]
Did(c, e) == ctrace' = [ctrace EXCEPT ![c] = Append(@, e)]
\* The pattern invalidateCompanyCache hands to DeleteByPattern.
CompanyPattern(company) == <<"company_activity_logs", ":">> \o Text(company) \o <<":", "*">>

\* A caller whose previous call has returned calls a method.
Begin(c, method, arg) ==
  /\ cpc[c] = "done"
  /\ TotalCalls(Callers) < MaxCalls
  /\ calls' = [calls EXCEPT ![c] = @ + 1]
  /\ cop' = [cop EXCEPT ![c] = method]
  /\ carg' = [carg EXCEPT ![c] = arg]

\* The call of caller c returns.
Return(c, err, val) ==
  /\ cpc' = [cpc EXCEPT ![c] = "done"]
  /\ cret' = [cret EXCEPT ![c] = [err |-> err, val |-> val]]
  /\ cloc' = [cloc EXCEPT ![c] = <<>>]

\* The call of caller c goes on to its next operation.
Goto(c, pc) ==
  /\ cpc' = [cpc EXCEPT ![c] = pc]
  /\ cret' = [cret EXCEPT ![c] = [err |-> FALSE, val |-> <<>>]]

At(c, method, pc) == cop[c] = method /\ cpc[c] = pc

\* A Create that goes on to the cache when the durable write failed.
CreateThenCache(c, storeUp) ==
  \E id \in Msgs :
    /\ Begin(c, "Create", ActivityLogOf(id))
    /\ coverlap' =
         [k \in Callers |->
            IF k = c THEN {r \in Callers : ReadingTenant(r, CompanyOf(id))
                                            \/ CountingTenant(r, CompanyOf(id))}
            ELSE IF ReadingTenant(k, CompanyOf(id)) THEN coverlap[k] \cup {id}
            ELSE coverlap[k]]
    /\ IF storeUp /\ id \notin DOMAIN collection
         THEN collection' = (id :> JSONMarshal(ActivityLogOf(id))) @@ collection
         ELSE UNCHANGED collection
    /\ Goto(c, "set")
    /\ DidFirst(c, RepoOp("Create", ActivityLogOf(id), ~(storeUp /\ id \notin DOMAIN collection), <<>>))
    /\ UNCHANGED <<ingestVars, warm, redis, cloc>>

\* Create, up to r.repo.Create: the document is written under its _key, or
\* Create returns the error.
Create(c, storeUp) ==
  \E id \in Msgs :
    /\ Begin(c, "Create", ActivityLogOf(id))
    /\ coverlap' =
         [k \in Callers |->
            IF k = c THEN {r \in Callers : ReadingTenant(r, CompanyOf(id))
                                            \/ CountingTenant(r, CompanyOf(id))}
            ELSE IF ReadingTenant(k, CompanyOf(id)) THEN coverlap[k] \cup {id}
            ELSE coverlap[k]]
    /\ IF storeUp /\ id \notin DOMAIN collection
         THEN /\ collection' = (id :> JSONMarshal(ActivityLogOf(id))) @@ collection
              /\ Goto(c, "set")
              /\ UNCHANGED cloc
         ELSE /\ Return(c, TRUE, <<>>)
              /\ UNCHANGED collection
    /\ DidFirst(c, RepoOp("Create", ActivityLogOf(id), ~(storeUp /\ id \notin DOMAIN collection), <<>>))
    /\ UNCHANGED <<ingestVars, warm, redis>>

\* A Create that returns after the cache Set, without the invalidation.
CreateSetOnly(c, ok) ==
  /\ At(c, "Create", "set")
  /\ redis' = IF ok THEN SetKey(redis, BuildActivityLogCacheKey(carg[c].ID), JSONMarshal(carg[c]))
                    ELSE redis
  /\ Did(c, CacheSet(BuildActivityLogCacheKey(carg[c].ID), carg[c], ok))
  /\ Return(c, FALSE, {})
  /\ UNCHANGED <<ingestVars, warm, collection, calls, cop, carg, coverlap>>

\* r.cache.Set of the created record; a failure is logged.
CreateSet(c, ok) ==
  /\ At(c, "Create", "set")
  /\ redis' = IF ok THEN SetKey(redis, BuildActivityLogCacheKey(carg[c].ID), JSONMarshal(carg[c]))
                    ELSE redis
  /\ Did(c, CacheSet(BuildActivityLogCacheKey(carg[c].ID), carg[c], ok))
  /\ Goto(c, "pattern")
  /\ UNCHANGED <<ingestVars, warm, collection, calls, cop, carg, cloc, coverlap>>

\* An invalidation that deletes the tenant's first page only.
CreateDeleteFirstPage(c, ok) ==
  /\ At(c, "Create", "pattern")
  /\ Did(c, CacheOp("cache.DeleteByPattern", CompanyPattern(carg[c].CompanyID),
                    IF ok THEN "ok" ELSE "err"))
  /\ IF ok
       THEN /\ redis' = DelKeys(redis, {BuildCompanyActivityLogsCacheKey(carg[c].CompanyID, 1, 1)})
            /\ Goto(c, "count")
            /\ UNCHANGED cloc
       ELSE /\ Return(c, FALSE, {"Failed to invalidate company cache after creation"})
            /\ UNCHANGED redis
  /\ UNCHANGED <<ingestVars, warm, collection, calls, cop, carg, coverlap>>

\* An invalidation whose two deletes are independent: the count key is
\* deleted whatever the pattern delete answered.
CreateDeleteByPatternThenCount(c, ok) ==
  /\ At(c, "Create", "pattern")
  /\ Did(c, CacheOp("cache.DeleteByPattern", CompanyPattern(carg[c].CompanyID),
                    IF ok THEN "ok" ELSE "err"))
  /\ redis' = IF ok
                THEN DelKeys(redis, {k \in DOMAIN redis : IsCompanyListKey(k, carg[c].CompanyID)})
                ELSE redis
  /\ Goto(c, "count")
  /\ UNCHANGED <<ingestVars, warm, collection, calls, cop, carg, cloc, coverlap>>

\* invalidateCompanyCache: r.cache.DeleteByPattern of the tenant's list keys;
\* when it fails the invalidation stops there, Create logs the warning and
\* returns nil.
CreateDeleteByPattern(c, ok) ==
  /\ At(c, "Create", "pattern")
  /\ Did(c, CacheOp("cache.DeleteByPattern", CompanyPattern(carg[c].CompanyID),
                    IF ok THEN "ok" ELSE "err"))
  /\ IF ok
       THEN /\ redis' = DelKeys(redis, {k \in DOMAIN redis : IsCompanyListKey(k, carg[c].CompanyID)})
            /\ Goto(c, "count")
            /\ UNCHANGED cloc
       ELSE /\ Return(c, FALSE, {"Failed to invalidate company cache after creation"})
            /\ UNCHANGED redis
  /\ UNCHANGED <<ingestVars, warm, collection, calls, cop, carg, coverlap>>

\* A Create whose delete of the count key is answered but deletes nothing.
CreateDeleteCountKept(c, ok) ==
  /\ At(c, "Create", "count")
  /\ Did(c, CacheOp("cache.Delete", BuildActivityLogCountCacheKey(carg[c].CompanyID),
                    IF ok THEN "ok" ELSE "err"))
  /\ Return(c, FALSE, IF ok THEN {} ELSE {"Failed to invalidate company cache after creation"})
  /\ UNCHANGED <<ingestVars, warm, collection, redis, calls, cop, carg, coverlap>>

\* invalidateCompanyCache: r.cache.Delete of the tenant's count key; Create
\* returns nil, with the warning it logged when the Delete failed.
CreateDeleteCount(c, ok) ==
  /\ At(c, "Create", "count")
  /\ Did(c, CacheOp("cache.Delete", BuildActivityLogCountCacheKey(carg[c].CompanyID),
                    IF ok THEN "ok" ELSE "err"))
  /\ redis' = IF ok THEN DelKeys(redis, {BuildActivityLogCountCacheKey(carg[c].CompanyID)})
                    ELSE redis
  /\ Return(c, FALSE, IF ok THEN {} ELSE {"Failed to invalidate company cache after creation"})
  /\ UNCHANGED <<ingestVars, warm, collection, calls, cop, carg, coverlap>>

\* A GetByID that goes on to the store whatever the cache answered.
GetByIDAlwaysReads(c, up) ==
  \E id \in Msgs :
    /\ Begin(c, "GetByID",
             <<id,
               cop[c] = "Create" /\ ~cret[c].err /\ carg[c].ID = id,
               cop[c] = "GetByID" /\ ~cret[c].err /\ carg[c][1] = id /\ Answered(c)>>)
    /\ coverlap' = [coverlap EXCEPT ![c] = {}]
    /\ DidFirst(c, CacheOp("cache.Get", BuildActivityLogCacheKey(id),
                           GetStatus(up, BuildActivityLogCacheKey(id))))
    /\ Goto(c, "read")
    /\ UNCHANGED <<cloc, warm>>
    /\ UNCHANGED <<ingestVars, collection, redis>>

\* GetByID, up to r.cache.Get: a hit returns the unmarshalled entry; a miss
\* or a failing cache goes on to the store. The argument remembers whether
\* the caller's previous call was the successful Create of this record, and
\* whether it was a GetByID of this record that succeeded with Redis
\* answering every call.
GetByID(c, up) ==
  \E id \in Msgs :
    /\ Begin(c, "GetByID",
             <<id,
               cop[c] = "Create" /\ ~cret[c].err /\ carg[c].ID = id,
               cop[c] = "GetByID" /\ ~cret[c].err /\ carg[c][1] = id /\ Answered(c)>>)
    /\ coverlap' = [coverlap EXCEPT ![c] = {}]
    /\ DidFirst(c, CacheOp("cache.Get", BuildActivityLogCacheKey(id),
                           GetStatus(up, BuildActivityLogCacheKey(id))))
    /\ IF up /\ BuildActivityLogCacheKey(id) \in DOMAIN redis
         THEN /\ Return(c, FALSE, JSONUnmarshal(redis[BuildActivityLogCacheKey(id)]))
              /\ warm' = warm \cup {id}
         ELSE /\ Goto(c, "read")
              /\ UNCHANGED <<cloc, warm>>
    /\ UNCHANGED <<ingestVars, collection, redis>>

\* r.repo.GetByID: ReadDocument by key.
GetByIDRead(c, storeUp) ==
  /\ At(c, "GetByID", "read")
  /\ Did(c, IF storeUp /\ carg[c][1] \in DOMAIN collection
               THEN RepoOp("GetByID", carg[c][1], FALSE, JSONUnmarshal(collection[carg[c][1]]))
               ELSE RepoOp("GetByID", carg[c][1], TRUE, StoreError(carg[c][1], storeUp)))
  /\ IF storeUp /\ carg[c][1] \in DOMAIN collection
       THEN /\ cloc' = [cloc EXCEPT ![c] = JSONUnmarshal(collection[carg[c][1]])]
            /\ Goto(c, "set")
       ELSE Return(c, TRUE, StoreError(carg[c][1], storeUp))
  /\ UNCHANGED <<ingestVars, warm, collection, redis, calls, cop, carg, coverlap>>

\* A GetByID that returns the error of its cache Set.
GetByIDSetFatal(c, ok) ==
  /\ At(c, "GetByID", "set")
  /\ redis' = IF ok THEN SetKey(redis, BuildActivityLogCacheKey(carg[c][1]), JSONMarshal(cloc[c]))
                    ELSE redis
  /\ Did(c, CacheSet(BuildActivityLogCacheKey(carg[c][1]), cloc[c], ok))
  /\ warm' = IF ok /\ Answered(c) THEN warm \cup {carg[c][1]} ELSE warm
  /\ Return(c, ~ok, IF ok THEN cloc[c] ELSE <<>>)
  /\ UNCHANGED <<ingestVars, collection, calls, cop, carg, coverlap>>

\* A GetByID whose cache Set is answered but keeps nothing.
GetByIDSetDropped(c, ok) ==
  /\ At(c, "GetByID", "set")
  /\ Did(c, CacheSet(BuildActivityLogCacheKey(carg[c][1]), cloc[c], ok))
  /\ warm' = IF ok /\ Answered(c) THEN warm \cup {carg[c][1]} ELSE warm
  /\ Return(c, FALSE, cloc[c])
  /\ UNCHANGED <<ingestVars, collection, redis, calls, cop, carg, coverlap>>

\* A GetByID that caches the record it read under the key of the next
\* identifier.
GetByIDSetOtherKey(c, ok) ==
  /\ At(c, "GetByID", "set")
  /\ redis' = IF ok THEN SetKey(redis, BuildActivityLogCacheKey((carg[c][1] % NumMsgs) + 1),
                                JSONMarshal(cloc[c]))
                    ELSE redis
  /\ Did(c, CacheSet(BuildActivityLogCacheKey((carg[c][1] % NumMsgs) + 1), cloc[c], ok))
  /\ warm' = IF ok /\ Answered(c) THEN warm \cup {carg[c][1]} ELSE warm
  /\ Return(c, FALSE, cloc[c])
  /\ UNCHANGED <<ingestVars, collection, calls, cop, carg, coverlap>>

\* r.cache.Set of the record read; GetByID returns it.
GetByIDSet(c, ok) ==
  /\ At(c, "GetByID", "set")
  /\ redis' = IF ok THEN SetKey(redis, BuildActivityLogCacheKey(carg[c][1]), JSONMarshal(cloc[c]))
                    ELSE redis
  /\ Did(c, CacheSet(BuildActivityLogCacheKey(carg[c][1]), cloc[c], ok))
  /\ warm' = IF ok /\ Answered(c) THEN warm \cup {carg[c][1]} ELSE warm
  /\ Return(c, FALSE, cloc[c])
  /\ UNCHANGED <<ingestVars, collection, calls, cop, carg, coverlap>>

ListKeyOf(arg) == BuildCompanyActivityLogsCacheKey(arg[1], arg[2], arg[3])

\* GetByCompanyID, up to r.cache.Get.
GetByCompanyID(c, up) ==
  \E company \in Tenants, pg \in Pages :
    /\ Begin(c, "GetByCompanyID", <<company, pg[1], pg[2]>>)
    /\ LET key == BuildCompanyActivityLogsCacheKey(company, pg[1], pg[2])
           hit == up /\ key \in DOMAIN redis
       IN /\ DidFirst(c, CacheOp("cache.Get", key, GetStatus(up, key)))
          /\ coverlap' =
               [k \in Callers |->
                  IF k = c
                    THEN IF hit THEN {}
                         ELSE {carg[r].ID : r \in {r \in Callers :
                                 Creating(r) /\ carg[r].CompanyID = company}}
                  ELSE IF Creating(k) /\ carg[k].CompanyID = company
                    THEN coverlap[k] \cup {c}
                  ELSE coverlap[k]]
          /\ IF hit
               THEN Return(c, FALSE,
                           [logs |-> [i \in DOMAIN redis[key].logs |->
                                        JSONUnmarshal(redis[key].logs[i])],
                            total |-> redis[key].total])
               ELSE Goto(c, "read") /\ UNCHANGED cloc
    /\ UNCHANGED <<ingestVars, warm, collection, redis>>

\* r.repo.GetByCompanyID.
GetByCompanyIDRead(c, storeUp) ==
  /\ At(c, "GetByCompanyID", "read")
  /\ Did(c, IF storeUp
               THEN RepoOp("GetByCompanyID", carg[c], FALSE,
                           QueryByCompanyID(carg[c][1], carg[c][2], carg[c][3]))
               ELSE RepoOp("GetByCompanyID", carg[c], TRUE, <<>>))
  /\ IF storeUp
       THEN /\ cloc' = [cloc EXCEPT ![c] = QueryByCompanyID(carg[c][1], carg[c][2], carg[c][3])]
            /\ Goto(c, "set")
            /\ UNCHANGED coverlap
       ELSE /\ Return(c, TRUE, <<>>)
            /\ coverlap' = [coverlap EXCEPT ![c] = {}]
  /\ UNCHANGED <<ingestVars, warm, collection, redis, calls, cop, carg>>

\* r.cache.Set of the page. The entry remembers the call that wrote it and
\* the Creates that ran during that call.
GetByCompanyIDSet(c, ok) ==
  /\ At(c, "GetByCompanyID", "set")
  /\ Did(c, CacheSet(ListKeyOf(carg[c]), cloc[c], ok))
  /\ redis' = IF ok
                THEN SetKey(redis, ListKeyOf(carg[c]),
                            [logs |-> [i \in DOMAIN cloc[c].logs |-> JSONMarshal(cloc[c].logs[i])],
                             total |-> cloc[c].total,
                             of |-> carg[c],
                             raced |-> coverlap[c]])
                ELSE redis
  /\ Goto(c, "items")
  /\ UNCHANGED <<ingestVars, warm, collection, calls, cop, carg, cloc, coverlap>>

\* A GetByCompanyID that returns the page without caching its records.
GetByCompanyIDSetItemsNone(c, ok) ==
  /\ At(c, "GetByCompanyID", "items")
  /\ Did(c, CacheSet({BuildActivityLogCacheKey(cloc[c].logs[i].ID) : i \in DOMAIN cloc[c].logs},
                     cloc[c].logs, ok))
  /\ Return(c, FALSE, cloc[c])
  /\ coverlap' = [coverlap EXCEPT ![c] = {}]
  /\ UNCHANGED <<ingestVars, warm, collection, redis, calls, cop, carg>>

\* The loop that caches every record of the page under its own key;
\* GetByCompanyID returns the page.
GetByCompanyIDSetItems(c, ok) ==
  /\ At(c, "GetByCompanyID", "items")
  /\ Did(c, CacheSet({BuildActivityLogCacheKey(cloc[c].logs[i].ID) : i \in DOMAIN cloc[c].logs},
                     cloc[c].logs, ok))
  /\ LET logs == cloc[c].logs
         keys == {BuildActivityLogCacheKey(logs[i].ID) : i \in DOMAIN logs}
         LogOf(k) == logs[CHOOSE i \in DOMAIN logs : BuildActivityLogCacheKey(logs[i].ID) = k]
     IN redis' = IF ok
                   THEN [k \in DOMAIN redis \cup keys |->
                           IF k \in keys THEN JSONMarshal(LogOf(k)) ELSE redis[k]]
                   ELSE redis
  /\ Return(c, FALSE, cloc[c])
  /\ coverlap' = [coverlap EXCEPT ![c] = {}]
  /\ UNCHANGED <<ingestVars, warm, collection, calls, cop, carg>>

\* CountByCompanyID, up to r.cache.Get.
CountByCompanyID(c, up) ==
  \E company \in Tenants :
    /\ Begin(c, "CountByCompanyID", company)
    /\ coverlap' = [k \in Callers |->
                      IF k = c THEN {}
                      ELSE IF Creating(k) /\ carg[k].CompanyID = company
                        THEN coverlap[k] \cup {c}
                      ELSE coverlap[k]]
    /\ DidFirst(c, CacheOp("cache.Get", BuildActivityLogCountCacheKey(company),
                           GetStatus(up, BuildActivityLogCountCacheKey(company))))
    /\ IF up /\ BuildActivityLogCountCacheKey(company) \in DOMAIN redis
         THEN Return(c, FALSE, redis[BuildActivityLogCountCacheKey(company)].n)
         ELSE Goto(c, "read") /\ UNCHANGED cloc
    /\ UNCHANGED <<ingestVars, warm, collection, redis>>

\* r.repo.CountByCompanyID.
CountByCompanyIDRead(c, storeUp) ==
  /\ At(c, "CountByCompanyID", "read")
  /\ Did(c, IF storeUp
               THEN RepoOp("CountByCompanyID", carg[c], FALSE, Cardinality(TenantDocs(carg[c])))
               ELSE RepoOp("CountByCompanyID", carg[c], TRUE, <<>>))
  /\ IF storeUp
       THEN /\ cloc' = [cloc EXCEPT ![c] = [n |-> Cardinality(TenantDocs(carg[c])),
                                           seen |-> TenantDocs(carg[c])]]
            /\ Goto(c, "set")
       ELSE Return(c, TRUE, <<>>)
  /\ UNCHANGED <<ingestVars, warm, collection, redis, calls, cop, carg, coverlap>>

\* r.cache.Set of the count; CountByCompanyID returns it. The entry
\* remembers the records that were counted.
CountByCompanyIDSet(c, ok) ==
  /\ At(c, "CountByCompanyID", "set")
  /\ Did(c, CacheSet(BuildActivityLogCountCacheKey(carg[c]), cloc[c].n, ok))
  /\ redis' = IF ok THEN SetKey(redis, BuildActivityLogCountCacheKey(carg[c]), cloc[c])
                    ELSE redis
  /\ Return(c, FALSE, cloc[c].n)
  /\ UNCHANGED <<ingestVars, warm, collection, calls, cop, carg, coverlap>>

\* The expiration given to Set elapses: Redis drops the entry.
Expire(key) ==
  /\ key \in DOMAIN redis
  /\ redis' = DelKeys(redis, {key})
  /\ warm' = {id \in warm : BuildActivityLogCacheKey(id) # key}
  /\ UNCHANGED <<ingestVars, collection, cop, cpc, carg, cloc, cret, calls, coverlap, ctrace>>

\* The keys the callers can have set.
Keys ==
  {BuildActivityLogCacheKey(id) : id \in Msgs}
    \cup {BuildActivityLogCountCacheKey(company) : company \in Tenants}
    \cup {BuildCompanyActivityLogsCacheKey(company, pg[1], pg[2]) :
            company \in Tenants, pg \in Pages}

NextRepo ==
  \/ \E c \in Callers, storeUp \in BOOLEAN : Create(c, storeUp)
  \/ \E c \in Callers, ok \in BOOLEAN : CreateSet(c, ok)
  \/ \E c \in Callers, ok \in BOOLEAN : CreateDeleteByPattern(c, ok)
  \/ \E c \in Callers, ok \in BOOLEAN : CreateDeleteCount(c, ok)
  \/ \E c \in Callers, up \in BOOLEAN : GetByID(c, up)
  \/ \E c \in Callers, storeUp \in BOOLEAN : GetByIDRead(c, storeUp)
  \/ \E c \in Callers, ok \in BOOLEAN : GetByIDSet(c, ok)
  \/ \E c \in Callers, up \in BOOLEAN : GetByCompanyID(c, up)
  \/ \E c \in Callers, storeUp \in BOOLEAN : GetByCompanyIDRead(c, storeUp)
  \/ \E c \in Callers, ok \in BOOLEAN : GetByCompanyIDSet(c, ok)
  \/ \E c \in Callers, ok \in BOOLEAN : GetByCompanyIDSetItems(c, ok)
  \/ \E c \in Callers, up \in BOOLEAN : CountByCompanyID(c, up)
  \/ \E c \in Callers, storeUp \in BOOLEAN : CountByCompanyIDRead(c, storeUp)
  \/ \E c \in Callers, ok \in BOOLEAN : CountByCompanyIDSet(c, ok)
  \/ \E key \in Keys : Expire(key)

\* The repository's callers alone: the stream is not part of it.
InitRepo == Init /\ \A m \in Msgs : decodable[m]

SpecRepo == InitRepo /\ [][NextRepo]_vars

\* The same callers with Redis answering every call.
NextRepoUp ==
  \/ \E c \in Callers, storeUp \in BOOLEAN : Create(c, storeUp)
  \/ \E c \in Callers : CreateSet(c, TRUE)
  \/ \E c \in Callers : CreateDeleteByPattern(c, TRUE)
  \/ \E c \in Callers : CreateDeleteCount(c, TRUE)
  \/ \E c \in Callers : GetByID(c, TRUE)
  \/ \E c \in Callers, storeUp \in BOOLEAN : GetByIDRead(c, storeUp)
  \/ \E c \in Callers : GetByIDSet(c, TRUE)
  \/ \E c \in Callers : GetByCompanyID(c, TRUE)
  \/ \E c \in Callers, storeUp \in BOOLEAN : GetByCompanyIDRead(c, storeUp)
  \/ \E c \in Callers : GetByCompanyIDSet(c, TRUE)
  \/ \E c \in Callers : GetByCompanyIDSetItems(c, TRUE)
  \/ \E c \in Callers : CountByCompanyID(c, TRUE)
  \/ \E c \in Callers, storeUp \in BOOLEAN : CountByCompanyIDRead(c, storeUp)
  \/ \E c \in Callers : CountByCompanyIDSet(c, TRUE)
  \/ \E key \in Keys : Expire(key)

SpecRepoUp == InitRepo /\ [][NextRepoUp]_vars

----------------------------------------------------------------------------
\* Update and Delete of CachedActivityLogRepository. invalidateCompanyCache
\* is taken as one step here: its pattern delete, then, when that worked,
\* the delete of the count key.
UpdatedLogOf(id) == [ActivityLogOf(id) EXCEPT !.FormattedMessage = "user renamed"]

\* The warnings a call of invalidateCompanyCache leaves in the log.
InvalidateWarning(patternOK, countOK, text) == IF patternOK /\ countOK THEN {} ELSE {text}
InvalidatedRedis(company, patternOK, countOK) ==
  IF ~patternOK THEN redis
  ELSE DelKeys(redis, {k \in DOMAIN redis : IsCompanyListKey(k, company)}
                        \cup (IF countOK THEN {BuildActivityLogCountCacheKey(company)} ELSE {}))
InvalidateCalls(company, patternOK, countOK) ==
  <<CacheOp("cache.DeleteByPattern", CompanyPattern(company), IF patternOK THEN "ok" ELSE "err")>>
    \o (IF patternOK
          THEN <<CacheOp("cache.Delete", BuildActivityLogCountCacheKey(company),
                         IF countOK THEN "ok" ELSE "err")>>
          ELSE <<>>)

\* Update, up to r.repo.Update: UpdateDocument under the record's _key.
Update(c, storeUp) ==
  \E id \in Msgs :
    /\ Begin(c, "Update", UpdatedLogOf(id))
    /\ coverlap' = [coverlap EXCEPT ![c] = {}]
    /\ IF storeUp /\ id \in DOMAIN collection
         THEN /\ collection' = [collection EXCEPT ![id] = JSONMarshal(UpdatedLogOf(id))]
              /\ DidFirst(c, RepoOp("Update", UpdatedLogOf(id), FALSE, <<>>))
              /\ Goto(c, "set")
              /\ UNCHANGED cloc
         ELSE /\ DidFirst(c, RepoOp("Update", UpdatedLogOf(id), TRUE, StoreError(id, storeUp)))
              /\ Return(c, TRUE, StoreError(id, storeUp))
              /\ UNCHANGED collection
    /\ UNCHANGED <<ingestVars, warm, redis>>

\* r.cache.Set of the updated record; a failure is logged.
UpdateSet(c, ok) ==
  /\ At(c, "Update", "set")
  /\ redis' = IF ok THEN SetKey(redis, BuildActivityLogCacheKey(carg[c].ID), JSONMarshal(carg[c]))
                    ELSE redis
  /\ Did(c, CacheSet(BuildActivityLogCacheKey(carg[c].ID), carg[c], ok))
  /\ Goto(c, "invalidate")
  /\ UNCHANGED <<ingestVars, warm, collection, calls, cop, carg, cloc, coverlap>>

\* invalidateCompanyCache; Update returns nil.
UpdateInvalidate(c, patternOK, countOK) ==
  /\ At(c, "Update", "invalidate")
  /\ redis' = InvalidatedRedis(carg[c].CompanyID, patternOK, countOK)
  /\ ctrace' = [ctrace EXCEPT ![c] = @ \o InvalidateCalls(carg[c].CompanyID, patternOK, countOK)]
  /\ Return(c, FALSE, InvalidateWarning(patternOK, countOK,
                                        "Failed to invalidate company cache after update"))
  /\ UNCHANGED <<ingestVars, warm, collection, calls, cop, carg, coverlap>>

\* Delete, up to the cache Get of the r.GetByID it starts with.
Delete(c, up) ==
  \E id \in Msgs :
    /\ Begin(c, "Delete", id)
    /\ coverlap' = [coverlap EXCEPT ![c] = {}]
    /\ DidFirst(c, CacheOp("cache.Get", BuildActivityLogCacheKey(id),
                           GetStatus(up, BuildActivityLogCacheKey(id))))
    /\ IF up /\ BuildActivityLogCacheKey(id) \in DOMAIN redis
         THEN /\ cloc' = [cloc EXCEPT ![c] = JSONUnmarshal(redis[BuildActivityLogCacheKey(id)])]
              /\ Goto(c, "remove")
         ELSE /\ Goto(c, "read")
              /\ UNCHANGED cloc
    /\ UNCHANGED <<ingestVars, warm, collection, redis>>

\* A Delete that gives up when the record cannot be read.
DeleteReadFatal(c, storeUp) ==
  /\ At(c, "Delete", "read")
  /\ IF storeUp /\ carg[c] \in DOMAIN collection
       THEN /\ Did(c, RepoOp("GetByID", carg[c], FALSE, JSONUnmarshal(collection[carg[c]])))
            /\ cloc' = [cloc EXCEPT ![c] = JSONUnmarshal(collection[carg[c]])]
            /\ Goto(c, "set")
       ELSE /\ Did(c, RepoOp("GetByID", carg[c], TRUE, StoreError(carg[c], storeUp)))
            /\ Return(c, TRUE, StoreError(carg[c], storeUp))
  /\ UNCHANGED <<ingestVars, warm, collection, redis, calls, cop, carg, coverlap>>

\* The r.repo.GetByID of that r.GetByID; when it fails Delete logs a warning
\* and goes on without the record.
DeleteRead(c, storeUp) ==
  /\ At(c, "Delete", "read")
  /\ IF storeUp /\ carg[c] \in DOMAIN collection
       THEN /\ Did(c, RepoOp("GetByID", carg[c], FALSE, JSONUnmarshal(collection[carg[c]])))
            /\ cloc' = [cloc EXCEPT ![c] = JSONUnmarshal(collection[carg[c]])]
            /\ Goto(c, "set")
       ELSE /\ Did(c, RepoOp("GetByID", carg[c], TRUE, StoreError(carg[c], storeUp)))
            /\ Goto(c, "remove")
            /\ UNCHANGED cloc
  /\ UNCHANGED <<ingestVars, warm, collection, redis, calls, cop, carg, coverlap>>

\* The cache Set of that r.GetByID.
DeleteSet(c, ok) ==
  /\ At(c, "Delete", "set")
  /\ redis' = IF ok THEN SetKey(redis, BuildActivityLogCacheKey(carg[c]), JSONMarshal(cloc[c]))
                    ELSE redis
  /\ Did(c, CacheSet(BuildActivityLogCacheKey(carg[c]), cloc[c], ok))
  /\ Goto(c, "remove")
  /\ UNCHANGED <<ingestVars, warm, collection, calls, cop, carg, cloc, coverlap>>

\* r.repo.Delete: RemoveDocument by key, or Delete returns the error.
DeleteRemove(c, storeUp) ==
  /\ At(c, "Delete", "remove")
  /\ IF storeUp /\ carg[c] \in DOMAIN collection
       THEN /\ collection' = [k \in DOMAIN collection \ {carg[c]} |-> collection[k]]
            /\ Did(c, RepoOp("Delete", carg[c], FALSE, <<>>))
            /\ Goto(c, "uncache")
            /\ UNCHANGED cloc
       ELSE /\ Did(c, RepoOp("Delete", carg[c], TRUE, StoreError(carg[c], storeUp)))
            /\ Return(c, TRUE, StoreError(carg[c], storeUp))
            /\ UNCHANGED collection
  /\ UNCHANGED <<ingestVars, warm, redis, calls, cop, carg, coverlap>>

\* r.cache.Delete of the item key; without the record Delete returns here.
DeleteCacheDelete(c, ok) ==
  /\ At(c, "Delete", "uncache")
  /\ redis' = IF ok THEN DelKeys(redis, {BuildActivityLogCacheKey(carg[c])}) ELSE redis
  /\ warm' = IF ok THEN warm \ {carg[c]} ELSE warm
  /\ Did(c, CacheOp("cache.Delete", BuildActivityLogCacheKey(carg[c]),
                    IF ok THEN "ok" ELSE "err"))
  /\ IF DOMAIN cloc[c] # {}
       THEN Goto(c, "invalidate") /\ UNCHANGED cloc
       ELSE Return(c, FALSE, {})
  /\ UNCHANGED <<ingestVars, collection, calls, cop, carg, coverlap>>

\* invalidateCompanyCache for the company of the record read; Delete
\* returns nil.
DeleteInvalidate(c, patternOK, countOK) ==
  /\ At(c, "Delete", "invalidate")
  /\ redis' = InvalidatedRedis(cloc[c].CompanyID, patternOK, countOK)
  /\ ctrace' = [ctrace EXCEPT ![c] = @ \o InvalidateCalls(cloc[c].CompanyID, patternOK, countOK)]
  /\ Return(c, FALSE, InvalidateWarning(patternOK, countOK,
                                        "Failed to invalidate company cache after deletion"))
  /\ UNCHANGED <<ingestVars, warm, collection, calls, cop, carg, coverlap>>

\* The callers with Redis failing every call: the six methods.
NextRepoDown ==
  \/ \E c \in Callers, storeUp \in BOOLEAN : Create(c, storeUp)
  \/ \E c \in Callers : CreateSet(c, FALSE)
  \/ \E c \in Callers : CreateDeleteByPattern(c, FALSE)
  \/ \E c \in Callers : GetByID(c, FALSE)
  \/ \E c \in Callers, storeUp \in BOOLEAN : GetByIDRead(c, storeUp)
  \/ \E c \in Callers : GetByIDSet(c, FALSE)
  \/ \E c \in Callers : GetByCompanyID(c, FALSE)
  \/ \E c \in Callers, storeUp \in BOOLEAN : GetByCompanyIDRead(c, storeUp)
  \/ \E c \in Callers : GetByCompanyIDSet(c, FALSE)
  \/ \E c \in Callers : GetByCompanyIDSetItems(c, FALSE)
  \/ \E c \in Callers : CountByCompanyID(c, FALSE)
  \/ \E c \in Callers, storeUp \in BOOLEAN : CountByCompanyIDRead(c, storeUp)
  \/ \E c \in Callers : CountByCompanyIDSet(c, FALSE)
  \/ \E c \in Callers, storeUp \in BOOLEAN : Update(c, storeUp)
  \/ \E c \in Callers : UpdateSet(c, FALSE)
  \/ \E c \in Callers : UpdateInvalidate(c, FALSE, FALSE)
  \/ \E c \in Callers : Delete(c, FALSE)
  \/ \E c \in Callers, storeUp \in BOOLEAN : DeleteRead(c, storeUp)
  \/ \E c \in Callers : DeleteSet(c, FALSE)
  \/ \E c \in Callers, storeUp \in BOOLEAN : DeleteRemove(c, storeUp)
  \/ \E c \in Callers : DeleteCacheDelete(c, FALSE)
  \/ \E c \in Callers : DeleteInvalidate(c, FALSE, FALSE)

SpecRepoDown == InitRepo /\ [][NextRepoDown]_vars

\* The callers with Redis answering every call: the writes Create, Update and
\* Delete next to the reads, the store still allowed to fail, entries
\* expiring.
NextRepoWrite ==
  \/ \E c \in Callers, storeUp \in BOOLEAN : Create(c, storeUp)
  \/ \E c \in Callers : CreateSet(c, TRUE)
  \/ \E c \in Callers : CreateDeleteByPattern(c, TRUE)
  \/ \E c \in Callers : CreateDeleteCount(c, TRUE)
  \/ \E c \in Callers : GetByID(c, TRUE)
  \/ \E c \in Callers, storeUp \in BOOLEAN : GetByIDRead(c, storeUp)
  \/ \E c \in Callers : GetByIDSet(c, TRUE)
  \/ \E c \in Callers : GetByCompanyID(c, TRUE)
  \/ \E c \in Callers, storeUp \in BOOLEAN : GetByCompanyIDRead(c, storeUp)
  \/ \E c \in Callers : GetByCompanyIDSet(c, TRUE)
  \/ \E c \in Callers : GetByCompanyIDSetItems(c, TRUE)
  \/ \E c \in Callers : CountByCompanyID(c, TRUE)
  \/ \E c \in Callers, storeUp \in BOOLEAN : CountByCompanyIDRead(c, storeUp)
  \/ \E c \in Callers : CountByCompanyIDSet(c, TRUE)
  \/ \E c \in Callers, storeUp \in BOOLEAN : Update(c, storeUp)
  \/ \E c \in Callers : UpdateSet(c, TRUE)
  \/ \E c \in Callers : UpdateInvalidate(c, TRUE, TRUE)
  \/ \E c \in Callers : Delete(c, TRUE)
  \/ \E c \in Callers, storeUp \in BOOLEAN : DeleteRead(c, storeUp)
  \/ \E c \in Callers : DeleteSet(c, TRUE)
  \/ \E c \in Callers, storeUp \in BOOLEAN : DeleteRemove(c, storeUp)
  \/ \E c \in Callers : DeleteCacheDelete(c, TRUE)
  \/ \E c \in Callers : DeleteInvalidate(c, TRUE, TRUE)
  \/ \E key \in Keys : Expire(key)

SpecRepoWrite == InitRepo /\ [][NextRepoWrite]_vars

\* The repository some time after the records were created: the collection
\* holds them and their cache entries have expired.
InitStored ==
  /\ InitIngest
  /\ published = Msgs
  /\ \A m \in Msgs : decodable[m]
  /\ collection = [id \in Msgs |-> JSONMarshal(ActivityLogOf(id))]
  /\ redis = <<>>
  /\ InitCalls
  /\ InitMigrations

\* Callers that update, delete and read the stored records, Redis answering
\* every call.
NextRepoStored ==
  \/ \E c \in Callers : GetByID(c, TRUE)
  \/ \E c \in Callers, storeUp \in BOOLEAN : GetByIDRead(c, storeUp)
  \/ \E c \in Callers : GetByIDSet(c, TRUE)
  \/ \E c \in Callers : GetByCompanyID(c, TRUE)
  \/ \E c \in Callers, storeUp \in BOOLEAN : GetByCompanyIDRead(c, storeUp)
  \/ \E c \in Callers : GetByCompanyIDSet(c, TRUE)
  \/ \E c \in Callers : GetByCompanyIDSetItems(c, TRUE)
  \/ \E c \in Callers, storeUp \in BOOLEAN : Update(c, storeUp)
  \/ \E c \in Callers : UpdateSet(c, TRUE)
  \/ \E c \in Callers : UpdateInvalidate(c, TRUE, TRUE)
  \/ \E c \in Callers : Delete(c, TRUE)
  \/ \E c \in Callers, storeUp \in BOOLEAN : DeleteRead(c, storeUp)
  \/ \E c \in Callers : DeleteSet(c, TRUE)
  \/ \E c \in Callers, storeUp \in BOOLEAN : DeleteRemove(c, storeUp)
  \/ \E c \in Callers : DeleteCacheDelete(c, TRUE)
  \/ \E c \in Callers : DeleteInvalidate(c, TRUE, TRUE)

SpecRepoStored == InitStored /\ [][NextRepoStored]_vars

----------------------------------------------------------------------------
\* ActivityLogUseCase.CreateActivityLog over the cached repository.

\* json.Valid on the texts the requests carry: white space is skipped, and
\* what is left is an empty object or an object of one member.
Punctuation == {"{", "}", ":", " "}
jsonValid(text) ==
  LET body == SelectSeq(text, LAMBDA t : t # " ")
  IN \/ body = <<"{", "}">>
     \/ /\ Len(body) = 5
        /\ body[1] = "{" /\ body[3] = ":" /\ body[5] = "}"
        /\ body[2] \notin Punctuation /\ body[4] \notin Punctuation

\* The requests of the callers: the changes are absent, a JSON object, or an
\* object that is not closed; the actor's email is well-formed or has no
\* "@"; the activity name is given or empty.
ChangesTexts == {<<>>, <<"{", "field", ":", " ", "value", "}">>, <<"{", "field", ":", " ", "value">>}
ActorEmails == {[at |-> TRUE, local |-> 4, domain |-> 7, tld |-> 3],
                [at |-> FALSE, local |-> 13, domain |-> 0, tld |-> 0]}
Requests ==
  {[ActivityName |-> name, CompanyID |-> "acme", ObjectName |-> "user", ObjectID |-> "u-1",
    Changes |-> changes, FormattedMessage |-> "user created", ActorID |-> "actor-1",
    ActorName |-> "Ann", ActorEmail |-> email] :
     name \in {"", "user.created"}, changes \in ChangesTexts, email \in ActorEmails}

\* valueobject.NewActivityLogID for the call caller c is making: an id no
\* other call gets.
NewActivityLogID(c) == NumMsgs + ((c - 1) * MaxCalls) + calls[c] + 1

\* entity.NewActivityLog on the fields of the request; changes stays nil when
\* the request has none.
NewActivityLog(req, id) ==
  [ID |-> id,
   ActivityName |-> req.ActivityName,
   CompanyID |-> req.CompanyID,
   ObjectName |-> req.ObjectName,
   ObjectID |-> req.ObjectID,
   Changes |-> IF req.Changes = <<>> THEN RawNil ELSE Raw(req.Changes),
   FormattedMessage |-> req.FormattedMessage,
   ActorID |-> req.ActorID,
   ActorName |-> req.ActorName,
   ActorEmail |-> req.ActorEmail,
   CreatedAt |-> id]

\* What CreateActivityLog returns: the record or nil, and the error or nil.
Returned(activityLog, error) == [activityLog |-> activityLog, error |-> error]

\* A CreateActivityLog that hands the record to the repository without
\* asking IsValid.
CreateActivityLogUnchecked(c) ==
  \E req \in Requests :
    /\ Begin(c, "CreateActivityLog", req)
    /\ ctrace' = [ctrace EXCEPT ![c] = <<>>]
    /\ IF req.Changes # <<>> /\ ~jsonValid(req.Changes)
         THEN Return(c, TRUE, Returned("nil", "invalid JSON in changes field"))
         ELSE /\ Goto(c, "create")
              /\ cloc' = [cloc EXCEPT ![c] = NewActivityLog(req, NewActivityLogID(c))]
    /\ UNCHANGED <<ingestVars, collection, redis, coverlap, warm>>

\* CreateActivityLog up to the repository call: json.Valid on non-empty
\* changes, NewActivityLog, IsValid.
CreateActivityLog(c) ==
  \E req \in Requests :
    /\ Begin(c, "CreateActivityLog", req)
    /\ ctrace' = [ctrace EXCEPT ![c] = <<>>]
    /\ IF req.Changes # <<>> /\ ~jsonValid(req.Changes)
         THEN Return(c, TRUE, Returned("nil", "invalid JSON in changes field"))
         ELSE IF ~IsValid(NewActivityLog(req, NewActivityLogID(c)))
         THEN Return(c, TRUE, Returned("nil", "invalid activity log"))
         ELSE /\ Goto(c, "create")
              /\ cloc' = [cloc EXCEPT ![c] = NewActivityLog(req, NewActivityLogID(c))]
    /\ UNCHANGED <<ingestVars, collection, redis, coverlap, warm>>

\* A CreateActivityLog that goes on to publish when the repository's Create
\* failed.
CreateActivityLogCreateIgnored(c, storeUp, setOK, patternOK, countOK) ==
  /\ At(c, "CreateActivityLog", "create")
  /\ IF storeUp
       THEN /\ collection' = (cloc[c].ID :> JSONMarshal(cloc[c])) @@ collection
            /\ redis' = IF setOK
                          THEN SetKey(InvalidatedRedis(cloc[c].CompanyID, patternOK, countOK),
                                      BuildActivityLogCacheKey(cloc[c].ID), JSONMarshal(cloc[c]))
                          ELSE InvalidatedRedis(cloc[c].CompanyID, patternOK, countOK)
            /\ Did(c, RepoOp("Create", cloc[c], FALSE, <<>>))
       ELSE /\ Did(c, RepoOp("Create", cloc[c], TRUE, <<>>))
            /\ UNCHANGED <<collection, redis>>
  /\ Goto(c, "publish")
  /\ UNCHANGED <<ingestVars, calls, cop, carg, cloc, coverlap, warm>>

\* uc.arangoRepo.Create, the cached repository's Create taken as one step:
\* the durable write, then the cache Set and the tenant's invalidation,
\* whose failures are logged.
CreateActivityLogCreate(c, storeUp, setOK, patternOK, countOK) ==
  /\ At(c, "CreateActivityLog", "create")
  /\ IF storeUp
       THEN /\ collection' = (cloc[c].ID :> JSONMarshal(cloc[c])) @@ collection
            /\ redis' = IF setOK
                          THEN SetKey(InvalidatedRedis(cloc[c].CompanyID, patternOK, countOK),
                                      BuildActivityLogCacheKey(cloc[c].ID), JSONMarshal(cloc[c]))
                          ELSE InvalidatedRedis(cloc[c].CompanyID, patternOK, countOK)
            /\ Did(c, RepoOp("Create", cloc[c], FALSE, <<>>))
            /\ Goto(c, "publish")
            /\ UNCHANGED cloc
       ELSE /\ Did(c, RepoOp("Create", cloc[c], TRUE, <<>>))
            /\ Return(c, TRUE, Returned("nil", "failed to create activity log"))
            /\ UNCHANGED <<collection, redis>>
  /\ UNCHANGED <<ingestVars, calls, cop, carg, coverlap, warm>>

\* The calls CreateActivityLog makes after the repository's Create.
PublishCall(activityLog, ok) ==
  [op |-> "PublishActivityLogCreated", arg |-> activityLog.ID,
   res |-> [err |-> ~ok, val |-> <<>>]]
MailCall(activityLog) ==
  [op |-> "go SendActivityLogNotification", arg |-> activityLog.ID,
   res |-> [err |-> FALSE, val |-> <<>>]]

\* The rest of CreateActivityLog: the event is published when a publisher is
\* configured, and a failure is returned; the notification is sent from a
\* goroutine of its own when a mailer is configured; the record is returned.
CreateActivityLogPublish(c, publisher, ok, mailer) ==
  /\ At(c, "CreateActivityLog", "publish")
  /\ ~publisher => ok
  /\ ctrace' = [ctrace EXCEPT ![c] =
                  @ \o (IF publisher THEN <<PublishCall(cloc[c], ok)>> ELSE <<>>)
                    \o (IF ok /\ mailer THEN <<MailCall(cloc[c])>> ELSE <<>>)]
  /\ IF ok THEN Return(c, FALSE, Returned(cloc[c], "nil"))
           ELSE Return(c, TRUE, Returned("nil", "failed to publish event"))
  /\ UNCHANGED <<ingestVars, collection, redis, calls, cop, carg, coverlap, warm>>

\* Callers of the use case.
NextUseCase ==
  \/ \E c \in Callers : CreateActivityLog(c)
  \/ \E c \in Callers, storeUp \in BOOLEAN, setOK \in BOOLEAN, patternOK \in BOOLEAN,
        countOK \in BOOLEAN : CreateActivityLogCreate(c, storeUp, setOK, patternOK, countOK)
  \/ \E c \in Callers, publisher \in BOOLEAN, ok \in BOOLEAN, mailer \in BOOLEAN :
        CreateActivityLogPublish(c, publisher, ok, mailer)

SpecUseCase == InitRepo /\ [][NextUseCase]_vars

----------------------------------------------------------------------------
AllWorkersExited == \A w \in Workers : wpc[w] = "exited"
PoolStopReturned == \E s \in Stoppers : spc[s] \in {"close_stopCh", "conn_close", "done"}
Executing(j) == \E w \in Workers : wjob[w] = j
Started == proc = "running"
\* C1: on a started pool, with Stop never called and every handler returning nil, each submitted
\* job ends with its handler run once, OnSuccess invoked once and OnError
\* never; all messages are submitted, so OnSuccess fires NumMsgs times.
NoHandlerError == \A w \in Workers : ~werr[w]
AllSucceededOnce ==
  \A j \in Jobs : handlerRuns[j] = 1 /\ onSuccess[j] = 1 /\ onError[j] = 0
C1_PoolDelivery == (<>Started /\ []NoHandlerError) => <>[]AllSucceededOnce
C1_Witness == proc = "running" /\ AllSucceededOnce

\* C2: every acknowledged message has its record in the durable store.
C2_AckImpliesDurable ==
  /\ \A m \in acked : m \in store
  /\ \A j \in Jobs : acks[j] > 0 => j \in store
C2_Witness == \E m \in Msgs : m \in acked /\ m \in store

C4_AckNakMapping ==
  \A j \in Jobs :
    /\ acks[j] + naks[j] <= 1
    /\ acks[j] = onSuccess[j] /\ naks[j] = onError[j]
    /\ (handlerRuns[j] > 0 /\ ~Executing(j)) => acks[j] + naks[j] = 1
    /\ acks[j] = 1 => result[j] = "ok"
    /\ naks[j] = 1 => result[j] = "err"
C4_Witness == \E j, k \in Jobs : acks[j] = 1 /\ naks[k] = 1 /\ ~Executing(k)

\* C5: a job passed to Submit when quit is already closed is discarded: it is
\* not in the queue, its handler does not run and no callback fires.
C5_LateSubmitRejected ==
  \A j \in lateSubmit :
    /\ j \in rejected
    /\ j \notin Range(jobQueue)
    /\ handlerRuns[j] = 0 /\ onSuccess[j] = 0 /\ onError[j] = 0

\* C6: once WorkerPool.Stop has returned every worker has exited and holds no
\* job, and from then on no handler runs and no callback fires.
C6_StoppedPoolIsIdle ==
  /\ [](PoolStopReturned => (AllWorkersExited /\ \A w \in Workers : wjob[w] = NoJob))
  /\ [][PoolStopReturned => UNCHANGED <<handlerRuns, onSuccess, onError>>]_vars
C6_Witness == PoolStopReturned /\ jobQueue # <<>>

\* C7: a WorkerPool.Stop that has closed quit eventually returns.
C7_StopTerminates ==
  \A s \in Stoppers :
    (spc[s] = "wg_wait") ~> (spc[s] \in {"close_stopCh", "conn_close", "done"})

\* C8 as stated: a job that was queued when Stop began is never executed and
\* none of its callbacks fires.
C8_QueuedNeverRun ==
  \A j \in queuedAtStop : handlerRuns[j] = 0 /\ onSuccess[j] = 0 /\ onError[j] = 0

\* C8 as amended: a job that was queued when Stop began is executed at most
\* once, with at most one callback, by a worker whose select picked the queue
\* before quit; once every worker has exited nothing is executed any more.
C8_QueuedBestEffort ==
  /\ [](\A j \in queuedAtStop :
          handlerRuns[j] <= 1 /\ onSuccess[j] + onError[j] <= handlerRuns[j])
  /\ [][AllWorkersExited =>
          (jobQueue' = jobQueue \/ Len(jobQueue') > Len(jobQueue))
          /\ UNCHANGED <<handlerRuns, onSuccess, onError>>]_vars
C8_Witness ==
  \E j \in queuedAtStop : AllWorkersExited /\ j \in Range(jobQueue) /\ handlerRuns[j] = 0

\* C9: one cancellation runs the shutdown sequence once: at most one
\* execution of NATSConsumer.Stop, and no close of a closed channel.
C9_SingleShutdown ==
  /\ proc # "panicked"
  /\ Cardinality({s \in Stoppers : spc[s] \notin {"new", "wait_ctx"}}) <= 1

C11_SilentDrop ==
  \A j \in rejected :
    /\ acks[j] = 0 /\ naks[j] = 0
    /\ onSuccess[j] = 0 /\ onError[j] = 0 /\ handlerRuns[j] = 0
    /\ j \notin acked
    /\ j \notin Range(jobQueue) /\ ~Executing(j)
C11_Witness == proc = "exited" /\ conn = "closed" /\ rejected # {}

\* C12: a message whose payload unmarshals but whose record fails
\* ActivityLog.IsValid is never written to the durable store or the cache
\* and is never acknowledged.
C12_InvalidRecordRejected ==
  \A m \in Msgs :
    (decodable[m] /\ ~IsValid(ActivityLogOf(m))) =>
      /\ m \notin store
      /\ BuildActivityLogCacheKey(m) \notin cache
      /\ acks[m] = 0 /\ m \notin acked

\* C13: a message is negative-acknowledged a bounded number of times only:
\* once its processing has failed max_retries times it is dead-lettered and
\* acknowledged, so from some point on no delivery of it gets a Nak.
C13_DeadLettered == \A m \in Msgs : <>[](naks[m] = 0)

\* A worker's handler step on a message whose record the store already holds.
Reprocess(w) == wpc[w] = "handler" /\ wpc'[w] = "callback" /\ wjob[w] \in store

HandlerStores(w) ==
  wpc[w] = "handler" /\ wpc'[w] = "callback" /\ wjob[w] \notin store /\ wjob[w] \in store'

\* C16: a handler run whose durable Create succeeded returns nil whatever the
\* cache Set, DeleteByPattern and Delete did, so a message whose record is in
\* the durable store is acknowledged and not negative-acknowledged.
C16_CacheFailuresSwallowed ==
  /\ [][\A w \in Workers :
          HandlerStores(w) => (~werr'[w] /\ result'[wjob[w]] = "ok")]_vars
  /\ [](\A j \in Jobs :
          j \in store => (naks[j] = 0 /\ (~Executing(j) => acks[j] = 1)))
C16_Witness ==
  \E m \in Msgs :
    acks[m] = 1 /\ m \in acked /\ m \in store /\ BuildActivityLogCacheKey(m) \notin cache

\* Caller c starts a call in this step.
Begins(c) == calls'[c] = calls[c] + 1
InCachePhase(c) == cop[c] = "Create" /\ cpc[c] \in {"set", "pattern", "count"}

\* C15: Create makes a cache call only after the durable Create has written
\* the document; when the durable Create fails, Create returns the error in
\* that same step, without any cache call and with the cache as it was.
C15_DurableFirst ==
  /\ [](\A c \in Callers : InCachePhase(c) => carg[c].ID \in DOMAIN collection)
  /\ [][\A c \in Callers :
          (Begins(c) /\ cop'[c] = "Create") =>
            /\ redis' = redis
            /\ IF carg'[c].ID \in DOMAIN collection' \ DOMAIN collection
                 THEN cpc'[c] = "set"
                 ELSE cpc'[c] = "done" /\ cret'[c].err /\ collection' = collection]_vars
C15_Witness ==
  \E c \in Callers :
    /\ cop[c] = "Create" /\ cpc[c] = "done" /\ cret[c].err
    /\ carg[c].ID \notin DOMAIN collection
    /\ DOMAIN redis # {}

\* The cached pages of a tenant, and the identifiers a cached page holds.
ListKeysOf(company) ==
  {BuildCompanyActivityLogsCacheKey(company, pg[1], pg[2]) : pg \in Pages} \cap DOMAIN redis
IdsOf(logs) == {logs[i].ID : i \in DOMAIN logs}
\* The Create of caller c has returned nil and logged no invalidation failure.
Invalidated(c) ==
  cop[c] = "Create" /\ cpc[c] = "done" /\ ~cret[c].err /\ cret[c].val = {}

CreateReturned(id) ==
  id \in DOMAIN collection /\ ~\E c \in Callers : Creating(c) /\ carg[c].ID = id
Omits(company, pg, id) ==
  /\ id \in IdsOf(QueryByCompanyID(company, pg[1], pg[2]).logs)
  /\ id \notin IdsOf(redis[BuildCompanyActivityLogsCacheKey(company, pg[1], pg[2])].logs)
C19_ItemCoherence ==
  \A id \in Msgs :
    BuildActivityLogCacheKey(id) \in DOMAIN redis =>
      /\ id \in DOMAIN collection
      /\ JSONUnmarshal(redis[BuildActivityLogCacheKey(id)]) = JSONUnmarshal(collection[id])
C19_Witness ==
  \E id \in Msgs : \E c, r \in Callers :
    /\ BuildActivityLogCacheKey(id) \in DOMAIN redis
    /\ Creating(c)
    /\ cop[r] \in {"GetByID", "GetByCompanyID"} /\ cpc[r] = "set"

\* C20: a GetByID that follows the caller's successful Create of a valid
\* record and succeeds, from the cache or from the store, returns a record
\* equal in every field to the one created.
C20_RoundTrip ==
  \A c \in Callers :
    (/\ At(c, "GetByID", "done") /\ carg[c][2] /\ ~cret[c].err
     /\ IsValid(ActivityLogOf(carg[c][1])))
      => cret[c].val = ActivityLogOf(carg[c][1])

\* The cache Get that opens the call of caller c found the entry; it failed.
Hit(c) == ctrace[c] # <<>> /\ ctrace[c][1].op = "cache.Get" /\ ctrace[c][1].st = "ok"
Missed(c) ==
  ctrace[c] # <<>> /\ ctrace[c][1].op = "cache.Get" /\ ctrace[c][1].st \in {"miss", "err"}

\* C21: a GetByID whose cache Get succeeds returns the value of the entry
\* and nothing else happens: the Get is the only call it makes, on Redis or
\* on the collection, and both are left as they were.
C21_GetByIDCacheHit ==
  /\ [](\A c \in Callers :
          (cop[c] = "GetByID" /\ Hit(c)) =>
            cpc[c] = "done" /\ ~cret[c].err /\ Len(ctrace[c]) = 1)
  /\ [][\A c \in Callers :
          (Begins(c) /\ cop'[c] = "GetByID" /\ Hit(c)') =>
            /\ cret'[c].val = JSONUnmarshal(redis[BuildActivityLogCacheKey(carg'[c][1])])
            /\ redis' = redis
            /\ collection' = collection]_vars
C21_Witness ==
  \E c \in Callers : At(c, "GetByID", "done") /\ Hit(c) /\ Len(ctrace[c]) = 1

\* C22: a GetByID whose cache Get fails, the key being absent or Redis not
\* answering, reads the collection. When the read fails it returns the
\* error and makes no call on Redis; when it succeeds it makes one cache
\* Set of the record read under the item key and returns that record with
\* no error, whether the Set worked or not.
C22_GetByIDCacheMiss ==
  /\ [](\A c \in Callers :
          (At(c, "GetByID", "done") /\ Missed(c)) =>
            /\ Len(ctrace[c]) >= 2
            /\ ctrace[c][2].op = "GetByID"
            /\ IF ctrace[c][2].res.err
                 THEN cret[c] = ctrace[c][2].res /\ Len(ctrace[c]) = 2
                 ELSE /\ ~cret[c].err
                      /\ cret[c].val = ctrace[c][2].res.val
                      /\ Len(ctrace[c]) = 3
                      /\ ctrace[c][3].op = "cache.Set"
                      /\ ctrace[c][3].key = BuildActivityLogCacheKey(carg[c][1])
                      /\ ctrace[c][3].val = ctrace[c][2].res.val)
  /\ [][\A c \in Callers :
          (At(c, "GetByID", "read") /\ cpc'[c] = "done") => redis' = redis]_vars
  /\ [][\A c \in Callers :
          (At(c, "GetByID", "set") /\ cpc'[c] = "done") =>
            IF ctrace'[c][3].st = "err" THEN redis' = redis
            ELSE redis' = SetKey(redis, BuildActivityLogCacheKey(carg[c][1]),
                                 JSONMarshal(ctrace[c][2].res.val))]_vars
C22_Witness ==
  \E c, k \in Callers :
    /\ At(c, "GetByID", "done") /\ ~cret[c].err
    /\ ctrace[c][1].st = "err" /\ Len(ctrace[c]) = 3 /\ ctrace[c][3].st = "err"
    /\ At(k, "GetByID", "done") /\ cret[k].err
    /\ ctrace[k][1].st = "miss"

\* C23: a GetByID that follows the caller's GetByID of the same record,
\* which succeeded with Redis answering, finds the entry and makes no call
\* on the collection, when the entry has not expired in between and Redis
\* answers the Get: nothing but expiry removes the entry of a record.
C23_CacheHitShortCircuit ==
  /\ [](\A id \in warm : BuildActivityLogCacheKey(id) \in DOMAIN redis)
  /\ [][\A c \in Callers :
          (/\ Begins(c) /\ cop'[c] = "GetByID" /\ carg'[c][3]
           /\ carg'[c][1] \in warm /\ ctrace'[c][1].st # "err") =>
            cpc'[c] = "done" /\ ~cret'[c].err /\ Len(ctrace'[c]) = 1]_vars
C23_Witness ==
  \E c \in Callers :
    /\ At(c, "GetByID", "done") /\ carg[c][3] /\ Hit(c) /\ calls[c] = 2
    /\ \E k \in Callers : cop[k] = "Create" /\ cpc[k] = "done" /\ ~cret[k].err
                             /\ carg[k].ID = carg[c][1] /\ ctrace[k][2].st = "err"

\* The calls on the collection in the trace of caller c, and the one that
\* is the method the caller called.
StoreCalls(c) == {i \in DOMAIN ctrace[c] : "res" \in DOMAIN ctrace[c][i]}
OwnCalls(c) == {i \in StoreCalls(c) : ctrace[c][i].op = cop[c]}
StoreArg(c) == IF cop[c] = "GetByID" THEN carg[c][1] ELSE carg[c]
\* What the caller got back: Create, Update and Delete return an error only.
Result(c) ==
  IF cop[c] \in {"Create", "Update", "Delete"} /\ ~cret[c].err
    THEN [err |-> FALSE, val |-> <<>>]
    ELSE cret[c]
\* The same call made on ArangoActivityLogRepository when the database
\* answers: whether it succeeds, what it returns, the collection it leaves.
DirectSucceeds(e) ==
  IF e.op = "Create" THEN e.arg.ID \notin DOMAIN collection
  ELSE IF e.op = "Update" THEN e.arg.ID \in DOMAIN collection
  ELSE IF e.op \in {"GetByID", "Delete"} THEN e.arg \in DOMAIN collection
  ELSE TRUE
DirectValue(e) ==
  IF e.op = "GetByID" THEN JSONUnmarshal(collection[e.arg])
  ELSE IF e.op = "GetByCompanyID" THEN QueryByCompanyID(e.arg[1], e.arg[2], e.arg[3])
  ELSE IF e.op = "CountByCompanyID" THEN Cardinality(TenantDocs(e.arg))
  ELSE <<>>
DirectCollection(e) ==
  IF e.op = "Create" THEN (e.arg.ID :> JSONMarshal(e.arg)) @@ collection
  ELSE IF e.op = "Update" THEN [collection EXCEPT ![e.arg.ID] = JSONMarshal(e.arg)]
  ELSE IF e.op = "Delete" THEN [k \in DOMAIN collection \ {e.arg} |-> collection[k]]
  ELSE collection
Stepped(c) == calls'[c] # calls[c] \/ cpc'[c] # cpc[c]

\* C24: with every call on Redis failing, a call of Create, GetByID,
\* GetByCompanyID, CountByCompanyID, Update or Delete makes the call of the
\* same name and argument on the collection once and returns what that
\* call returned, value or error; the only other call on the collection is
\* the read Delete starts with; and the collection changes exactly as the
\* direct call changes it.
C24_DegradesToStore ==
  /\ [](\A c \in Callers :
          (cpc[c] = "done" /\ cop[c] # "none") =>
            \E i \in OwnCalls(c) :
              /\ OwnCalls(c) = {i}
              /\ ctrace[c][i].arg = StoreArg(c)
              /\ Result(c) = ctrace[c][i].res
              /\ \A j \in StoreCalls(c) \ {i} : ctrace[c][j].op = "GetByID" /\ j < i)
  /\ [][\A c \in Callers :
          Stepped(c) =>
            LET e == ctrace'[c][Len(ctrace'[c])]
            IN IF "res" \in DOMAIN e
                 THEN IF e.res.err
                        THEN collection' = collection
                        ELSE /\ DirectSucceeds(e)
                             /\ e.res.val = DirectValue(e)
                             /\ collection' = DirectCollection(e)
                 ELSE collection' = collection]_vars
C24_Witness ==
  \E c, k \in Callers :
    /\ At(c, "Delete", "done") /\ ~cret[c].err /\ StoreCalls(c) = {2, 4}
    /\ At(k, "Update", "done") /\ ~cret[k].err
    /\ redis = <<>>

\* The (company, page, limit) triples the readers ask for.
Triples == {<<company, pg[1], pg[2]>> : company \in Tenants, pg \in Pages}

\* C25: a GetByCompanyID whose cache Get succeeds returns the page and the
\* total of the entry and makes no other call; the keys of different
\* (company, page, limit) triples differ, an entry holds what was read for
\* its own triple, and the Set of one triple's entry leaves every other
\* entry as it was.
C25_GetByCompanyIDCacheHit ==
  /\ [](\A c \in Callers :
          (cop[c] = "GetByCompanyID" /\ Hit(c)) =>
            cpc[c] = "done" /\ ~cret[c].err /\ Len(ctrace[c]) = 1)
  /\ [][\A c \in Callers :
          (Begins(c) /\ cop'[c] = "GetByCompanyID" /\ Hit(c)') =>
            LET entry == redis[ListKeyOf(carg'[c])]
            IN /\ cret'[c].val = [logs |-> [i \in DOMAIN entry.logs |->
                                              JSONUnmarshal(entry.logs[i])],
                                  total |-> entry.total]
               /\ redis' = redis
               /\ collection' = collection]_vars
  /\ [](\A t, u \in Triples : ListKeyOf(t) = ListKeyOf(u) => t = u)
  /\ [](\A t \in Triples : ListKeyOf(t) \in DOMAIN redis => redis[ListKeyOf(t)].of = t)
  /\ [][\A c \in Callers :
          (At(c, "GetByCompanyID", "set") /\ cpc'[c] = "items") =>
            \A k \in Keys \ {ListKeyOf(carg[c])} :
              /\ k \in DOMAIN redis <=> k \in DOMAIN redis'
              /\ k \in DOMAIN redis => redis'[k] = redis[k]]_vars
C25_Witness ==
  \E c \in Callers : \E t \in Triples :
    /\ At(c, "GetByCompanyID", "done") /\ Hit(c)
    /\ t # carg[c] /\ t[1] = carg[c][1]
    /\ ListKeyOf(t) \in DOMAIN redis /\ ListKeyOf(carg[c]) \in DOMAIN redis

\* C26: when a Create for tenant T returns with its deletes done, the cache
\* holds no count of T; as long as no read of T ran during that Create, a
\* count of T found in the cache afterwards was counted with the created
\* record in the collection; and a CountByCompanyID that finds no entry
\* reads the collection and returns the number of T's records in it.
C26_CountInvalidation ==
  /\ [][\A c \in Callers :
          (At(c, "Create", "count") /\ Invalidated(c)') =>
            BuildActivityLogCountCacheKey(carg[c].CompanyID) \notin DOMAIN redis']_vars
  /\ [](\A c \in Callers :
          (/\ Invalidated(c) /\ coverlap[c] = {}
           /\ BuildActivityLogCountCacheKey(carg[c].CompanyID) \in DOMAIN redis) =>
            carg[c].ID \in redis[BuildActivityLogCountCacheKey(carg[c].CompanyID)].seen)
  /\ [][\A r \in Callers :
          (/\ Begins(r) /\ cop'[r] = "CountByCompanyID"
           /\ BuildActivityLogCountCacheKey(carg'[r]) \notin DOMAIN redis) =>
            cpc'[r] = "read"]_vars
  /\ [][\A r \in Callers :
          (At(r, "CountByCompanyID", "read") /\ cpc'[r] = "set") =>
            ctrace'[r][2].res.val = Cardinality(TenantDocs(carg[r]))]_vars
  /\ [](\A r \in Callers :
          (At(r, "CountByCompanyID", "done") /\ Missed(r) /\ ~cret[r].err) =>
            cret[r].val = ctrace[r][2].res.val)
C26_Witness ==
  \E c, r \in Callers :
    /\ Invalidated(c) /\ coverlap[c] = {} /\ calls[c] = 1
    /\ At(r, "CountByCompanyID", "done") /\ carg[r] = carg[c].CompanyID
    /\ calls[r] = 2 /\ Missed(r) /\ ~cret[r].err /\ cret[r].val = 1

\* The callbacks of job j changed in this step.
CallbackFired(j) == onSuccess'[j] > onSuccess[j] \/ onError'[j] > onError[j]

\* C27: a job whose handler returned an error gets OnError exactly once, with
\* that error, and never OnSuccess; a job whose handler returned nil gets
\* OnSuccess exactly once and never OnError; a callback fires for a job only
\* from the worker holding it, the branch is chosen by that job's own handler
\* result, and the step leaves every other job's callbacks alone.
C27_FailureIsolation ==
  /\ [](\A j \in Jobs :
          /\ result[j] = "err" =>
                /\ herr[j] \in {"failed to unmarshal event", "failed to save to ArangoDB"}
                /\ onSuccess[j] = 0 /\ onError[j] <= 1
                /\ onError[j] = 1 => errSeen[j] = herr[j]
                /\ (proc = "running" /\ ~Executing(j)) => onError[j] = 1
          /\ result[j] = "ok" =>
                /\ herr[j] = "nil"
                /\ onError[j] = 0 /\ onSuccess[j] <= 1
                /\ (proc = "running" /\ ~Executing(j)) => onSuccess[j] = 1
          /\ result[j] = "none" => onSuccess[j] = 0 /\ onError[j] = 0)
  /\ [][\A j \in Jobs :
          CallbackFired(j) =>
            /\ \E w \in Workers : wjob[w] = j /\ wpc[w] = "callback"
            /\ onError'[j] = onError[j] + (IF result[j] = "err" THEN 1 ELSE 0)
            /\ onSuccess'[j] = onSuccess[j] + (IF result[j] = "ok" THEN 1 ELSE 0)
            /\ \A k \in Jobs \ {j} :
                  onSuccess'[k] = onSuccess[k] /\ onError'[k] = onError[k]]_vars
C27_Witness ==
  \E j, k \in Jobs :
    /\ result[j] = "err" /\ onError[j] = 1 /\ errSeen[j] = herr[j] /\ onSuccess[j] = 0
    /\ result[k] = "ok" /\ onSuccess[k] = 1 /\ onError[k] = 0
    /\ handlerRuns[j] = 1 /\ handlerRuns[k] = 1

\* The workers holding job j, and the places of the queue holding it.
Holders(j) == {w \in Workers : wjob[w] = j}
QueuedAt(j) == {i \in 1..Len(jobQueue) : jobQueue[i] = j}

\* C28: a submitted job is in one place at a time: with its submitter, in the
\* queue, or with one worker. Every receive removes the head of the queue and
\* hands it to the receiving worker alone; a job still queued or not yet past
\* job.Handler has not run, so no job is received twice; its handler runs at
\* most once and at most one callback fires, once, after the handler.
C28_SingleOwnership ==
  /\ [](\A j \in Jobs :
          /\ Cardinality(Holders(j)) + Cardinality(QueuedAt(j))
               + (IF djob = j THEN 1 ELSE 0) <= 1
          /\ handlerRuns[j] <= 1
          /\ onSuccess[j] + onError[j] <= handlerRuns[j]
          /\ (QueuedAt(j) # {} \/ djob = j) => handlerRuns[j] = 0
          /\ \A w \in Holders(j) :
                /\ wpc[w] \in {"handler", "callback"}
                /\ handlerRuns[j] = (IF wpc[w] = "handler" THEN 0 ELSE 1)
                /\ onSuccess[j] + onError[j] = 0)
  /\ [][\A w \in Workers :
          (wjob'[w] # wjob[w] /\ wjob'[w] # NoJob) =>
            /\ wjob[w] = NoJob /\ jobQueue # <<>>
            /\ wjob'[w] = Head(jobQueue) /\ jobQueue' = Tail(jobQueue)
            /\ \A v \in Workers \ {w} : wjob'[v] = wjob[v]]_vars
C28_Witness ==
  \E j, k \in Jobs, w \in Workers :
    /\ quit = "closed" /\ j # k
    /\ handlerRuns[j] = 1 /\ onSuccess[j] + onError[j] = 1 /\ Holders(j) = {}
    /\ Holders(k) = {w} /\ wpc[w] = "callback" /\ handlerRuns[k] = 1

\* A Submit call is in progress, and the step in which it returns.
Submitting == dpc \in {"handle", "blocked"}
SubmitReturns == Submitting /\ dpc' = "idle"

\* C29: the queue never holds more than QueueCap jobs (the bound standing for
\* the channel's capacity of 100). While the queue is full and quit is open a
\* Submit in progress does not return and keeps its job; it returns either by
\* enqueueing its job at the tail of a queue with room, or, with quit closed,
\* by discarding it with the queue untouched. Only a worker's receive
\* shortens the queue.
C29_Backpressure ==
  /\ [](Len(jobQueue) <= QueueCap)
  /\ [](dpc = "blocked" => djob \in Jobs)
  /\ [][(Submitting /\ Len(jobQueue) >= QueueCap /\ quit = "open") =>
          (dpc' \in {dpc, "blocked"} /\ djob' = djob /\ djob \notin rejected' \ rejected)]_vars
  /\ [][SubmitReturns =>
          \/ /\ Len(jobQueue) < QueueCap
             /\ jobQueue' = Append(jobQueue, djob)
             /\ rejected' = rejected
          \/ /\ quit = "closed"
             /\ jobQueue' = jobQueue
             /\ rejected' = rejected \cup {djob}]_vars
  /\ [][Len(jobQueue') < Len(jobQueue) =>
          \E w \in Workers :
            wpc[w] = "select" /\ wjob'[w] = Head(jobQueue) /\ jobQueue' = Tail(jobQueue)]_vars
C29_Witness ==
  dpc = "blocked" /\ Len(jobQueue) = QueueCap /\ quit = "open" /\ djob \notin Range(jobQueue)

\* The request fails the use case's validation.
InvalidJSON(req) == req.Changes # <<>> /\ ~jsonValid(req.Changes)
InvalidRecord(req) == ~IsValid(NewActivityLog(req, NoJob))
\* The calls on the repository and the publisher in the trace of caller c.
Outbound(c) ==
  {i \in 1..Len(ctrace[c]) : ctrace[c][i].op \in {"Create", "PublishActivityLogCreated"}}

\* C30: a CreateActivityLog whose request has non-empty changes that are not
\* JSON, or whose record fails IsValid, returns in its first step with an
\* error and a nil record; it has called neither the repository's Create nor
\* the publisher, and the collection and the cache are as they were.
C30_UseCaseValidation ==
  /\ [](\A c \in Callers :
          (cop[c] = "CreateActivityLog" /\ (InvalidJSON(carg[c]) \/ InvalidRecord(carg[c]))) =>
            /\ cpc[c] = "done"
            /\ cret[c].err
            /\ cret[c].val.activityLog = "nil"
            /\ cret[c].val.error = (IF InvalidJSON(carg[c]) THEN "invalid JSON in changes field"
                                                            ELSE "invalid activity log")
            /\ Outbound(c) = {})
  /\ [][\A c \in Callers :
          (/\ Begins(c) /\ cop'[c] = "CreateActivityLog"
           /\ (InvalidJSON(carg'[c]) \/ InvalidRecord(carg'[c]))) =>
            collection' = collection /\ redis' = redis]_vars
  /\ [](\A id \in DOMAIN collection : IsValid(JSONUnmarshal(collection[id])))
C30_Witness ==
  \E c, d \in Callers :
    /\ cop[c] = "CreateActivityLog" /\ InvalidJSON(carg[c]) /\ cret[c].err
    /\ cop[d] = "CreateActivityLog" /\ ~InvalidJSON(carg[d]) /\ InvalidRecord(carg[d])
    /\ ~isValidEmail(carg[d].ActorEmail) /\ cret[d].err
    /\ collection # <<>>

\* The repository's Create that the use-case call of caller c made failed.
CreateFailed(c) ==
  /\ cop[c] = "CreateActivityLog"
  /\ Len(ctrace[c]) >= 1 /\ ctrace[c][1].op = "Create" /\ ctrace[c][1].res.err

\* C31: when the repository's Create fails, CreateActivityLog returns at that
\* step with an error and a nil record; the failed Create is the only call it
\* made (no event published, no notification started), and the step leaves
\* the collection and the cache as they were.
C31_UseCaseStoreFailure ==
  /\ [](\A c \in Callers :
          CreateFailed(c) =>
            /\ cpc[c] = "done"
            /\ cret[c].err
            /\ cret[c].val = Returned("nil", "failed to create activity log")
            /\ Len(ctrace[c]) = 1)
  /\ [][\A c \in Callers :
          (At(c, "CreateActivityLog", "create") /\ CreateFailed(c)') =>
            collection' = collection /\ redis' = redis]_vars
  /\ [](\A c \in Callers :
          (cop[c] = "CreateActivityLog" /\ cpc[c] = "publish") =>
            (~ctrace[c][1].res.err /\ cloc[c].ID \in DOMAIN collection))
C31_Witness ==
  \E c, d \in Callers :
    /\ CreateFailed(c) /\ cpc[c] = "done" /\ cret[c].err
    /\ cop[d] = "CreateActivityLog" /\ cpc[d] = "done" /\ ~cret[d].err
    /\ \E i \in 1..Len(ctrace[d]) : ctrace[d][i].op = "PublishActivityLogCreated"

\* The workers inside job.Handler, and the jobs that were received from the
\* queue and whose callback has not fired yet.
InHandler == {w \in Workers : wpc[w] = "handler"}
InFlight ==
  {j \in Jobs : /\ delivered[j] /\ djob # j /\ j \notin Range(jobQueue) /\ j \notin rejected
                /\ onSuccess[j] + onError[j] = 0}

\* C32: at most NumWorkers handlers, hence consumer Creates, are in progress
\* at once. Every job received and not yet finished is held by exactly one
\* worker, a worker holds a job exactly between its receive and its
\* callback, and job.Handler runs only in the worker holding the job: the
\* jobs in flight are as many as the busy workers.
C32_BoundedConcurrency ==
  /\ [](Cardinality(InHandler) <= NumWorkers)
  /\ [](\A j \in InFlight : Cardinality(Holders(j)) = 1)
  /\ [](Cardinality(InFlight) = Cardinality({w \in Workers : wjob[w] # NoJob}))
  /\ [](\A w \in Workers : wjob[w] # NoJob <=> wpc[w] \in {"handler", "callback"})
  /\ [][\A j \in Jobs :
          handlerRuns'[j] > handlerRuns[j] =>
            \E w \in InHandler : wjob[w] = j /\ wpc'[w] = "callback"]_vars
C32_Witness ==
  /\ InHandler = Workers
  /\ Cardinality(InFlight) = NumWorkers
  /\ \A w, v \in Workers : w # v => wjob[w] # wjob[v]

\* The item keys of the records of a page.
ItemKeysOf(logs) == {BuildActivityLogCacheKey(logs[i].ID) : i \in DOMAIN logs}

\* C33: a GetByCompanyID that misses queries the collection for the page and
\* the total as they are at that moment. On a store error it returns the
\* error, having made no cache Set and changed nothing. Otherwise it returns
\* what it read; its Set, when Redis accepts it, writes under the key of its
\* (tenant, page, limit) an entry that decodes to exactly that page and total
\* and touches no other key; the item Sets, when Redis accepts them, leave
\* for every record of the page an item entry that decodes to the record.
C33_GetByCompanyIDCacheMiss ==
  /\ [][\A c \in Callers :
          (At(c, "GetByCompanyID", "read") /\ Missed(c)) =>
            /\ cpc'[c] # "read" =>
                  /\ ctrace'[c][2].op = "GetByCompanyID"
                  /\ ~ctrace'[c][2].res.err =>
                        ctrace'[c][2].res.val = QueryByCompanyID(carg[c][1], carg[c][2], carg[c][3])
                  /\ redis' = redis /\ collection' = collection]_vars
  /\ [](\A c \in Callers :
          (At(c, "GetByCompanyID", "done") /\ Missed(c)) =>
            IF ctrace[c][2].res.err
              THEN cret[c].err /\ Len(ctrace[c]) = 2
              ELSE /\ ~cret[c].err
                   /\ cret[c].val = ctrace[c][2].res.val
                   /\ Len(ctrace[c]) = 4
                   /\ ctrace[c][3].op = "cache.Set" /\ ctrace[c][3].key = ListKeyOf(carg[c])
                   /\ ctrace[c][3].val = ctrace[c][2].res.val
                   /\ ctrace[c][4].op = "cache.Set"
                   /\ ctrace[c][4].key = ItemKeysOf(cret[c].val.logs))
  /\ [][\A c \in Callers :
          (At(c, "GetByCompanyID", "set") /\ cpc'[c] = "items") =>
            IF ctrace'[c][3].st = "err" THEN redis' = redis
            ELSE LET entry == redis'[ListKeyOf(carg[c])]
                     page == ctrace[c][2].res.val
                 IN /\ DOMAIN redis' = DOMAIN redis \cup {ListKeyOf(carg[c])}
                    /\ DOMAIN entry.logs = DOMAIN page.logs
                    /\ \A i \in DOMAIN page.logs : JSONUnmarshal(entry.logs[i]) = page.logs[i]
                    /\ entry.total = page.total
                    /\ \A k \in DOMAIN redis \ {ListKeyOf(carg[c])} : redis'[k] = redis[k]]_vars
  /\ [][\A c \in Callers :
          (At(c, "GetByCompanyID", "items") /\ cpc'[c] = "done") =>
            IF ctrace'[c][4].st = "err" THEN redis' = redis
            ELSE LET logs == ctrace[c][2].res.val.logs
                 IN /\ DOMAIN redis' = DOMAIN redis \cup ItemKeysOf(logs)
                    /\ \A i \in DOMAIN logs :
                          JSONUnmarshal(redis'[BuildActivityLogCacheKey(logs[i].ID)]) = logs[i]
                    /\ \A k \in DOMAIN redis \ ItemKeysOf(logs) : redis'[k] = redis[k]]_vars
C33_Witness ==
  \E c, d \in Callers :
    /\ At(c, "GetByCompanyID", "done") /\ Missed(c) /\ ~cret[c].err
    /\ Len(cret[c].val.logs) = 1 /\ cret[c].val.total = 1
    /\ ctrace[c][3].st = "ok" /\ ctrace[c][4].st = "ok"
    /\ ListKeyOf(carg[c]) \in DOMAIN redis
    /\ ItemKeysOf(cret[c].val.logs) \subseteq DOMAIN redis
    /\ At(d, "GetByCompanyID", "done") /\ Missed(d) /\ cret[d].err

\* Caller c takes a step of a Create, Update or Delete; the record written.
Writes(c) == Stepped(c) /\ cop'[c] \in {"Create", "Update", "Delete"}
WrittenID(c) == IF cop'[c] = "Delete" THEN carg'[c] ELSE carg'[c].ID
\* The step leaves the cache entry under key k as it is.
SameEntry(k) ==
  /\ k \in DOMAIN redis <=> k \in DOMAIN redis'
  /\ k \in DOMAIN redis => redis'[k] = redis[k]
\* The step leaves the list entries and the count entry of the tenant as
\* they are.
SameTenantEntries(company) ==
  /\ \A pg \in Pages : SameEntry(BuildCompanyActivityLogsCacheKey(company, pg[1], pg[2]))
  /\ SameEntry(BuildActivityLogCountCacheKey(company))

\* C34: every step of a Create, Update or Delete for a record of tenant T
\* leaves the list entries and the count entry of every other tenant, and
\* the item entries of every other record, as they are.
C34_TenantFrame ==
  [][\A c \in Callers :
       Writes(c) =>
         /\ \A company \in Tenants \ {CompanyOf(WrittenID(c))} : SameTenantEntries(company)
         /\ \A id \in Msgs \ {WrittenID(c)} : SameEntry(BuildActivityLogCacheKey(id))]_vars

\* The places in the trace of caller c of a call with this name.
CallsOf(c, op) == {i \in 1..Len(ctrace[c]) : ctrace[c][i].op = op}

\* C35: in a Create the delete of the tenant's count key is made only after a
\* successful pattern delete. When the pattern delete fails the Create
\* returns success at that step with the warning, makes no further cache
\* call, and the cache, the tenant's count entry included, is as it was;
\* when it succeeds the Create goes on to the count key.
C35_SequentialInvalidation ==
  /\ [](\A c \in Callers :
          cop[c] = "Create" =>
            \A i \in CallsOf(c, "cache.Delete") :
              /\ i > 1
              /\ ctrace[c][i - 1].op = "cache.DeleteByPattern"
              /\ ctrace[c][i - 1].st = "ok")
  /\ [][\A c \in Callers :
          (At(c, "Create", "pattern") /\ Stepped(c)) =>
            IF ctrace'[c][Len(ctrace'[c])].st = "err"
              THEN /\ cpc'[c] = "done" /\ ~cret'[c].err
                   /\ cret'[c].val = {"Failed to invalidate company cache after creation"}
                   /\ redis' = redis
              ELSE cpc'[c] = "count"]_vars
  /\ [](\A c \in Callers :
          (At(c, "Create", "done") /\ ~cret[c].err) =>
            (CallsOf(c, "cache.Delete") = {} <=>
               \E i \in CallsOf(c, "cache.DeleteByPattern") : ctrace[c][i].st = "err"))
C35_Witness ==
  \E c \in Callers :
    /\ At(c, "Create", "done") /\ ~cret[c].err
    /\ Len(ctrace[c]) = 3 /\ ctrace[c][3].op = "cache.DeleteByPattern" /\ ctrace[c][3].st = "err"
    /\ BuildActivityLogCountCacheKey(carg[c].CompanyID) \in DOMAIN redis
    /\ carg[c].ID \notin redis[BuildActivityLogCountCacheKey(carg[c].CompanyID)].seen

\* Caller c is the only one that has called the repository so far.
OnlyCaller(c) == \A r \in Callers \ {c} : calls[r] = 0

\* C36: when a Delete returns success, no other caller having run, the cache
\* holds no item entry of the record and no list or count entry of the
\* record's tenant.
C36_DeleteInvalidation ==
  [][\A c \in Callers :
       (/\ cop[c] = "Delete" /\ cpc[c] # "done" /\ cpc'[c] = "done" /\ ~cret'[c].err
        /\ OnlyCaller(c)) =>
         /\ BuildActivityLogCacheKey(carg[c]) \notin DOMAIN redis'
         /\ ListKeysOf(CompanyOf(carg[c]))' = {}
         /\ BuildActivityLogCountCacheKey(CompanyOf(carg[c])) \notin DOMAIN redis']_vars

\* Every call on the repository has returned.
Quiescent == \A c \in Callers : cpc[c] = "done"

\* C37: when every call has returned, an item entry in the cache belongs to
\* a document the collection holds and equals it.
C37_WriteCoherence ==
  Quiescent =>
    \A id \in Msgs :
      BuildActivityLogCacheKey(id) \in DOMAIN redis =>
        /\ id \in DOMAIN collection
        /\ redis[BuildActivityLogCacheKey(id)] = collection[id]

\* C38: when CreateActivityLog has returned an error, the record it handed
\* to the repository, if it got that far, is neither in the collection nor
\* in the cache.
C38_AllOrNothing ==
  \A c \in Callers :
    (cop[c] = "CreateActivityLog" /\ cpc[c] = "done" /\ cret[c].err) =>
      \A i \in CallsOf(c, "Create") :
        /\ ctrace[c][i].arg.ID \notin DOMAIN collection
        /\ BuildActivityLogCacheKey(ctrace[c][i].arg.ID) \notin DOMAIN redis

\* C39: the consumer's handler makes no repository Create for a record the
\* use case has written and published: a handler run for such a message
\* ends before arangoRepo.Create.
C39_OneDurableCreate ==
  [][\A m \in published :
       (m \in store /\ handlerRuns'[m] > handlerRuns[m]) => ~decodable[m]]_vars

\* The versions of the directory the collection did not hold when the
\* current Up read it.
NotYetRecorded == {f.version : f \in dir} \ mloc.appliedSet

\* The versions the current Up has passed to ExecuteAQL.
ExecutedSet == Range(Executed(mtrace))

\* C40: Up passes to ExecuteAQL the up scripts of versions that were not
\* recorded, each once and in strictly ascending order, and of all of them
\* when it returns nil; RecordMigration of a version directly follows an
\* ExecuteAQL of that version that returned nil, and only so a version gets
\* into the collection; a call that fails is the last call of the Up; and
\* the Up that follows an Up that returned nil executes no script.
C40_MigrationOrder ==
  /\ ExecutedSet \subseteq NotYetRecorded
  /\ \A k \in 1..(Len(Executed(mtrace)) - 1) : Executed(mtrace)[k] < Executed(mtrace)[k + 1]
  /\ (mpc = "done" /\ ~mhist[Len(mhist)].err) => ExecutedSet = NotYetRecorded
  /\ \A k \in 1..Len(mtrace) :
       mtrace[k].call = "RecordMigration" =>
         /\ k > 1
         /\ mtrace[k - 1] = [call |-> "ExecuteAQL", version |-> mtrace[k].version, err |-> FALSE]
  /\ mloc.i > 0 =>
       migrations.versions \ mloc.appliedSet =
         {mtrace[k].version : k \in {j \in 1..Len(mtrace) :
                                       mtrace[j].call = "RecordMigration" /\ ~mtrace[j].err}}
  /\ \A k \in 1..Len(mtrace) :
       mtrace[k].err => (k = Len(mtrace) /\ mpc = "done" /\ mhist[Len(mhist)].err)
  /\ \A k \in 1..(Len(mhist) - 1) : ~mhist[k].err => mhist[k + 1].executed = <<>>

\* A first Up executed a script and stopped at the failure of a later one, a
\* second Up executed the remaining scripts and returned nil, a third
\* returned nil.
C40_Witness ==
  /\ Len(mhist) = 3
  /\ mpc = "done"
  /\ mhist[1].err /\ Len(mhist[1].executed) = 2
  /\ ~mhist[2].err /\ Len(mhist[2].executed) = 2
  /\ ~mhist[3].err
  /\ mloc.appliedSet = Versions

----------------------------------------------------------------------------
\* The whole program under fair scheduling of its goroutines. The signal that
\* cancels the context may never come.
FairAll ==
  /\ FairRun
  /\ WF_vars(SubmitReject)
  /\ \A w \in Workers : WF_vars(WorkerQuit(w))
  /\ \A s \in Stoppers : WF_vars(StopUnsubscribe(s))
  /\ \A s \in Stoppers : WF_vars(StopCloseQuit(s))
  /\ \A s \in Stoppers : WF_vars(StopWaitWorkers(s))
  /\ \A s \in Stoppers : WF_vars(StopCloseStopCh(s))
  /\ \A s \in Stoppers : WF_vars(StopCloseConn(s))
  /\ WF_vars(ServerReturn)

SpecFair == Init /\ [][Next]_vars /\ FairAll

====
